---- MODULE Spec2Model ----
(***************************************************************************)
(* The image editing session of ImageEditModal                              *)
(* (src/components/AudioPlayer.tsx): the draw and mask canvases, the tool  *)
(* state machine, the bucket fill, the undo history and the two            *)
(* asynchronous collaborator calls.                                        *)
(*                                                                         *)
(* A canvas is its RGBA pixel array: a function from the linear pixel      *)
(* index y*Width+x to <<r,g,b,a>> (the code indexes bytes, (y*width+x)*4). *)
(* A React state variable is a variable here; a handler that runs after an *)
(* await keeps the state values of the render that created it, so an       *)
(* in-flight call carries the history and historyStep it captured.         *)
(***************************************************************************)
EXTENDS Integers, Sequences, FiniteSets, TLC

\* ---------------------------------------------------------------- bounds
\* naturalWidth x naturalHeight of the images of the model
Width == 2
Height == 2
\* the fill inputs: at most this many painted / masked pixels
MaxPainted == 2
MaxMasked == 2
\* the session: saveHistory calls and collaborator calls per behaviour
MaxPushes == 3
MaxUndoPushes == 5
MaxCapPushes == 22
MaxStrokePushes == 3
MaxUndoLen == 2
MaxUndoCalls == 4
MaxVariations == 2
MaxCalls == 2
\* the session: pointer-moves that paint, per stroke
MaxMoves == 1
\* the session: the pan stays within -MaxPan .. MaxPan
MaxPan == 1
\* the pushes of an exported session
MaxSavePushes == 3
\* the export by itself: image sizes up to MaxNatural x MaxNatural, pans of
\* up to MaxExportPan viewport pixels (and of a whole viewport)
MaxNatural == 3
MaxExportPan == 3
\* the operations of a session whose buffers are told apart
MaxHeapOps == 4
\* the background generations of a session whose sizes are followed
MaxGenerations == 2
\* sessions whose images differ in size: images of 1 .. MaxStrip pixels in a
\* row, and the saveHistory calls of a run
MaxStrip == 2
MaxResizePushes == 4
\* the saveHistory calls of a session whose settings are followed
MaxFramePushes == 2
\* the saveHistory calls of a session whose drags are followed
MaxDragPushes == 2
\* the application: speaker ids 1 .. MaxSpeakers, at most MaxSegments segments
\* in an analysis result, times 0 .. MaxTime, at most MaxManual manual speakers
MaxSpeakers == 2
MaxSegments == 2
MaxTime == 2
MaxManual == 2

\* ------------------------------------------------------ program constants
\* "if (newHistory.length > 20) newHistory.shift()"
HistoryCap == 20
\* "if (maskPixels[pos + 3] > 10) continue"
MaskBarrier == 10
\* "const a = 255"
OpaqueAlpha == 255

\* ------------------------------------------------------------ pixel data
Pixels == 0 .. (Width * Height - 1)

Transparent == <<0, 0, 0, 0>>

\* reading a typed array outside its range yields undefined in every channel
Undefined == <<-1, -1, -1, -1>>

\* a cleared canvas (clearRect over the whole canvas; a canvas just resized)
BlankData == [p \in Pixels |-> Transparent]

\* brushColor is '#rrggbb'; kept as its six hex digits
HexPink == <<15, 15, 0, 0, 5, 5>>
HexCyan == <<0, 0, 15, 3, 15, 15>>
Palette == {HexPink, HexCyan}

\* parseInt(hex.substring(i, i + 2), 16), i counted from 1 here
ParseHexByte(hex, i) == 16 * hex[i] + hex[i + 1]

\* the fill colour of handleBucketFill: r, g, b parsed from brushColor, a = 255
FillColor(brushColor) ==
    << ParseHexByte(brushColor, 1), ParseHexByte(brushColor, 3),
       ParseHexByte(brushColor, 5), OpaqueAlpha >>

\* pixels[pos .. pos+3] of a Uint8ClampedArray
ReadPixel(data, pos) == IF pos \in DOMAIN data THEN data[pos] ELSE Undefined

\* ------------------------------------------------------- pointer events
\* A pointer event: clientX/clientY and the canvas's bounding rectangle at
\* that moment (the rectangle follows pan and zoom; it is an input here).
PointerEvent(cx, cy, left, top, w, h) ==
    [clientX |-> cx, clientY |-> cy,
     rect |-> [left |-> left, top |-> top, width |-> w, height |-> h]]

getPointerPos(e) == [x |-> e.clientX, y |-> e.clientY]

\* The numbers of the code that are not integers' neighbours: a division by
\* zero gives Infinity, 0 * Infinity gives NaN. They are kept as integers far
\* from every coordinate; NaN is told apart wherever the code computes or
\* compares with it.
Infinity == 1000000
NaN == -2000000
IsNaN(v) == v = NaN

\* a + b
Plus(a, b) == IF IsNaN(a) \/ IsNaN(b) THEN NaN ELSE a + b
\* a < b and a >= b: false when NaN is compared
Less(a, b) == ~IsNaN(a) /\ ~IsNaN(b) /\ a < b
AtLeast(a, b) == ~IsNaN(a) /\ ~IsNaN(b) /\ a >= b

\* d * (size / extent), floored
ScaleCoordinate(d, size, extent) ==
    IF extent # 0 THEN (d * size) \div extent
    ELSE IF d = 0 THEN NaN
    ELSE IF d > 0 THEN Infinity ELSE -Infinity

\* (pos - rect.origin) * (canvas.size / rect.size), floored to the pixel that
\* holds the point (handleBucketFill floors it; a stroke rasterises there)
getCanvasCoordinates(e) ==
    [x |-> ScaleCoordinate(getPointerPos(e).x - e.rect.left, Width, e.rect.width),
     y |-> ScaleCoordinate(getPointerPos(e).y - e.rect.top, Height, e.rect.height)]

\* cy * width + cx
PixelIndex(cx, cy) == IF IsNaN(cx) \/ IsNaN(cy) THEN NaN ELSE cy * Width + cx

\* ------------------------------------------------------------ bucket fill
\* "Mask Check": the mask pixel's alpha is above the barrier
IsWallOpaqueOnly(maskPixels, pos) == ReadPixel(maskPixels, pos)[4] >= OpaqueAlpha
IsWall(maskPixels, pos) == ReadPixel(maskPixels, pos)[4] > MaskBarrier

\* "Color Match Check": all four channels equal the start colour
ColorMatch(pixels, pos, start) == ReadPixel(pixels, pos) = start

\* "Fill": the four channels are overwritten with r, g, b, a
FilledPixelBlend(start, fill) ==
    <<fill[1], fill[2], fill[3], (start[4] + fill[4]) \div 2>>
FilledPixel(start, fill) == fill

\* "Push neighbors", in the order the code pushes them
NeighboursForward(cx, cy) == << <<cx + 1, cy>>, <<cx, cy + 1>> >>
NeighboursDiagonal(cx, cy) ==
    << <<cx + 1, cy>>, <<cx - 1, cy>>, <<cx, cy + 1>>, <<cx + 1, cy + 1>>,
       <<cx, cy - 1>> >>
Neighbours(cx, cy) ==
    << <<Plus(cx, 1), cy>>, <<Plus(cx, -1), cy>>,
       <<cx, Plus(cy, 1)>>, <<cx, Plus(cy, -1)>> >>

OutOfBoundsByIndex(cx, cy) == (cy * Width + cx) \notin Pixels

\* "if (cx < 0 || cx >= width || cy < 0 || cy >= height) continue"
OutOfBounds(cx, cy) ==
    Less(cx, 0) \/ AtLeast(cx, Width) \/ Less(cy, 0) \/ AtLeast(cy, Height)

\* the pops after which a run of the loop is no longer followed
PopLimit == 4 * Width * Height + 2

\* the "while (stack.length)" loop, one pop per unfolding: the pixels it
\* leaves and the pops it took, or done = FALSE when it is still running
\* after PopLimit pops
RECURSIVE FloodRun(_, _, _, _, _, _)
FloodRun(pixels, maskPixels, stack, start, fill, pops) ==
    IF stack = <<>> THEN [pixels |-> pixels, pops |-> pops, done |-> TRUE]
    ELSE IF pops >= PopLimit THEN [pixels |-> pixels, pops |-> pops, done |-> FALSE]
    ELSE LET top == stack[Len(stack)]                    \* stack.pop()
             rest == SubSeq(stack, 1, Len(stack) - 1)
             cx == top[1]
             cy == top[2]
             pos == PixelIndex(cx, cy)
         IN  \* Bounds Check
             IF OutOfBounds(cx, cy)
             THEN FloodRun(pixels, maskPixels, rest, start, fill, pops + 1)
             ELSE IF IsWall(maskPixels, pos)
             THEN FloodRun(pixels, maskPixels, rest, start, fill, pops + 1)
             ELSE IF ColorMatch(pixels, pos, start)
             THEN FloodRun(IF pos \in DOMAIN pixels
                           THEN [pixels EXCEPT ![pos] = FilledPixel(start, fill)]
                           ELSE pixels,
                           maskPixels, rest \o Neighbours(cx, cy), start, fill,
                           pops + 1)
             ELSE FloodRun(pixels, maskPixels, rest, start, fill, pops + 1)

\* the pixels the loop leaves
FloodLoop(pixels, maskPixels, stack, start, fill) ==
    FloodRun(pixels, maskPixels, stack, start, fill, 0).pixels

\* handleBucketFill(e) from "Get start color" on: the run of its loop (no pop
\* when the seed has the fill colour already)
handleBucketFillRun(drawingCanvas, maskCanvas, e, brushColor) ==
    LET startX == getCanvasCoordinates(e).x
        startY == getCanvasCoordinates(e).y
        fill == FillColor(brushColor)
        start == ReadPixel(drawingCanvas, PixelIndex(startX, startY))
    IN  IF start = fill
        THEN [pixels |-> drawingCanvas, pops |-> 0, done |-> TRUE]
        ELSE FloodRun(drawingCanvas, maskCanvas, << <<startX, startY>> >>,
                      start, fill, 0)

\* handleBucketFill(e) on the two canvases: the canvases after the handler.
\* Only the draw canvas is written back (ctx.putImageData(imgData, 0, 0)).
handleBucketFill(drawingCanvas, maskCanvas, e, brushColor) ==
    [drawing |-> handleBucketFillRun(drawingCanvas, maskCanvas, e, brushColor).pixels,
     mask |-> maskCanvas]

\* ---------------------------------------------------------------- state
VARIABLES
    imageSource,    \* the prop: "file" (a File) or "url" (a string)
    imgSrc,         \* what the <img> shows: "original" or "generated"
    loadPending,    \* the <img> has a load event to deliver
    imgShown,       \* an image has loaded: the canvases have a layout box
    zoom,           \* in tenths (the slider: 0.5 .. 15 by 0.1)
    pan,            \* <<x, y>>
    mode,           \* ToolMode
    isDragging, dragStart, isProcessing, isDrawing, hasInteracted,
    history,        \* sequence of [drawing, mask] ImageData pairs
    historyStep,
    brushColor,
    brushSize,      \* ctx.lineWidth of the strokes to come
    drawing,        \* drawingCanvasRef's pixels
    mask,           \* maskCanvasRef's pixels
    calls,          \* the async handlers in flight, each with its closure
    obs,            \* observer: the last operation, counters, the stroke watched
    fx              \* the inputs and outputs of the pure-function checks

sessionVars == <<imageSource, imgSrc, loadPending, imgShown, zoom, pan, mode,
                 isDragging, dragStart, isProcessing, isDrawing, hasInteracted,
                 history, historyStep, brushColor, brushSize, drawing, mask,
                 calls>>
vars == <<imageSource, imgSrc, loadPending, imgShown, zoom, pan, mode,
          isDragging, dragStart, isProcessing, isDrawing, hasInteracted,
          history, historyStep, brushColor, brushSize, drawing, mask, calls,
          obs, fx>>

ToolModes == {"move", "brush", "bucket", "mask", "eraser"}
StrokeModes == {"brush", "mask", "eraser"}

\* the slider's values used: its minimum, the initial 1.0, its maximum
ZoomValues == {5, 10, 150}
InitialZoom == 10

\* useState(20) and the Brush Size slider's maximum
InitialBrushSize == 20
BrushSizeMax == 150

\* 'rgba(0, 255, 100, 0.5)'
MarkerColor == <<0, 255, 100, 128>>

\* getImageData of both canvases: one history entry
Snapshot(d, m) == [drawing |-> d, mask |-> m]
BlankSnapshot == Snapshot(BlankData, BlankData)

\* ---------------------------------------------------------------- history
\* saveHistory with the history and historyStep of its closure and the
\* canvases as they are when it runs: the values given to setHistory and
\* setHistoryStep
saveHistoryEvictsNewest(hist, step, d, m) ==
    LET sliced == SubSeq(hist, 1, step + 1)
        pushed == Append(sliced, Snapshot(d, m))
        newHistory == IF Len(pushed) > HistoryCap
                      THEN SubSeq(pushed, 1, HistoryCap) ELSE pushed
    IN  [history |-> newHistory, historyStep |-> Len(newHistory) - 1]

saveHistoryKeepsFuture(hist, step, d, m) ==
    LET pushed == Append(hist, Snapshot(d, m))
        newHistory == IF Len(pushed) > HistoryCap THEN Tail(pushed) ELSE pushed
    IN  [history |-> newHistory, historyStep |-> Len(newHistory) - 1]

saveHistoryOffByOne(hist, step, d, m) ==
    LET sliced == SubSeq(hist, 1, step + 1)
        pushed == Append(sliced, Snapshot(d, m))
        newHistory == IF Len(pushed) > HistoryCap THEN Tail(pushed) ELSE pushed
    IN  [history |-> newHistory, historyStep |-> Len(newHistory)]

saveHistory(hist, step, d, m) ==
    LET sliced == SubSeq(hist, 1, step + 1)
        pushed == Append(sliced, Snapshot(d, m))
        newHistory == IF Len(pushed) > HistoryCap THEN Tail(pushed) ELSE pushed
    IN  [history |-> newHistory, historyStep |-> Len(newHistory) - 1]

handleUndoStepsBelowStart(hist, step, d, m) ==
    IF step > 0
    THEN [drawing |-> hist[step].drawing,
          mask |-> hist[step].mask,
          historyStep |-> step - 1]
    ELSE [drawing |-> BlankData, mask |-> BlankData, historyStep |-> step - 1]

handleUndoKeepsCanvas(hist, step, d, m) ==
    IF step > 0
    THEN [drawing |-> hist[step + 1].drawing,
          mask |-> hist[step + 1].mask,
          historyStep |-> step - 1]
    ELSE IF step = 0
    THEN [drawing |-> BlankData, mask |-> BlankData, historyStep |-> -1]
    ELSE [drawing |-> d, mask |-> m, historyStep |-> step]

\* handleUndo: the canvases and historyStep after it
handleUndo(hist, step, d, m) ==
    IF step > 0
    THEN [drawing |-> hist[step].drawing,      \* history[prevStep], 0-based
          mask |-> hist[step].mask,
          historyStep |-> step - 1]
    ELSE IF step = 0
    THEN [drawing |-> BlankData, mask |-> BlankData, historyStep |-> -1]
    ELSE [drawing |-> d, mask |-> m, historyStep |-> step]

\* ---------------------------------------------------------------- strokes
InBounds(c) == c.x >= 0 /\ c.x < Width /\ c.y >= 0 /\ c.y < Height

\* what ctx.stroke() does to the pixel under the pointer
StrokePixel(px, color, compositeOp) ==
    IF compositeOp = "destination-out" THEN Transparent
    ELSE IF color[4] = OpaqueAlpha THEN color
    ELSE <<color[1], color[2], color[3],
           color[4] + (px[4] * (OpaqueAlpha - color[4])) \div OpaqueAlpha>>

drawMaskInBrushColor(d, m, e, toolMode, color) ==
    LET c == getCanvasCoordinates(e)
        pos == c.y * Width + c.x
    IN  IF ~InBounds(c) THEN [drawing |-> d, mask |-> m]
        ELSE IF toolMode = "mask"
        THEN [drawing |-> d,
              mask |-> [m EXCEPT ![pos] =
                           StrokePixel(m[pos], FillColor(color), "source-over")]]
        ELSE IF toolMode = "eraser"
        THEN [drawing |-> [d EXCEPT ![pos] =
                              StrokePixel(d[pos], FillColor(color), "destination-out")],
              mask |-> m]
        ELSE [drawing |-> [d EXCEPT ![pos] =
                              StrokePixel(d[pos], FillColor(color), "source-over")],
              mask |-> m]

\* draw(e): the two canvases after it
draw(d, m, e, toolMode, color) ==
    LET c == getCanvasCoordinates(e)
        pos == c.y * Width + c.x
    IN  IF ~InBounds(c) THEN [drawing |-> d, mask |-> m]
        ELSE IF toolMode = "mask"
        THEN [drawing |-> d,
              mask |-> [m EXCEPT ![pos] = StrokePixel(m[pos], MarkerColor, "source-over")]]
        ELSE IF toolMode = "eraser"
        THEN [drawing |-> [d EXCEPT ![pos] =
                              StrokePixel(d[pos], FillColor(color), "destination-out")],
              mask |-> m]
        ELSE [drawing |-> [d EXCEPT ![pos] =
                              StrokePixel(d[pos], FillColor(color), "source-over")],
              mask |-> m]

\* --------------------------------------------------------------- observer
\* obs records what the properties below speak about and bounds the run; no
\* handler reads it.
\*   op              the last operation other than a tool selection
\*   nPushes, nCalls saveHistory calls and collaborator calls so far
\*   nMoves          painting pointer-moves of the stroke watched
\*   phase, base     a stroke watched from its pointer-down: "stroking" until
\*                   its pointer-up, "stroked" after it, "undone" after an undo
\*                   that directly follows; base is the canvases at pointer-down;
\*                   "generated" after a background generation succeeded,
\*                   "reloaded" once the generated image has loaded
\*   budget          the number of saveHistory calls the run is bounded to
\*   logging, log    when logging, every snapshot handed to saveHistory, in
\*                   the order of the calls
\*   drag            when logging, the pan and the pointer's place at the
\*                   pointer-down of the move-mode drag in progress
\*   pre             when logging, beside every snapshot of the history the
\*                   canvases as they were before the edit that pushed it
\*                   (before the pointer-down, for a stroke)
\*   scen, full      progress through: image load, three brush strokes, two
\*                   undos, one brush stroke (-2 before the load, -1 off);
\*                   full is the history after the third stroke
NoSnapshot == <<>>
NoDrag == [pan |-> <<>>, pos |-> <<>>]

NextPhase(kind) ==
    CASE kind = "down" ->
             IF ~isDrawing \/ obs.phase = "stroking" THEN "stroking" ELSE "idle"
      [] kind = "up" ->
             IF obs.phase = "stroking" /\ isDrawing THEN "stroked"
             ELSE IF ~isDrawing THEN obs.phase
             ELSE "idle"
      [] kind = "undo" -> IF obs.phase = "stroked" THEN "undone" ELSE "idle"
      [] kind = "editDone" -> "generated"
      [] kind = "load" -> IF obs.phase = "generated" THEN "reloaded" ELSE "idle"
      [] kind \in {"move", "view"} -> obs.phase
      [] OTHER -> "idle"

NextBase(kind) ==
    IF NextPhase(kind) \in {"idle", "generated", "reloaded"} THEN NoSnapshot
    ELSE IF kind = "down" /\ ~isDrawing THEN Snapshot(drawing, mask)
    ELSE obs.base

NextScen(kind) ==
    CASE kind = "load" -> IF obs.scen = -2 THEN 0 ELSE -1
      [] kind = "up" ->
             IF ~(isDrawing /\ hasInteracted) THEN obs.scen
             ELSE IF mode = "brush" /\ obs.scen \in {0, 1, 2, 5} THEN obs.scen + 1
             ELSE -1
      [] kind = "undo" -> IF obs.scen \in {3, 4} THEN obs.scen + 1 ELSE -1
      [] kind \in {"down", "move", "view"} -> obs.scen
      [] OTHER -> -1

ObserveAt(op, kind, pushes, started, pos) ==
    obs' = [op |-> op,
            nPushes |-> obs.nPushes + pushes,
            nCalls |-> obs.nCalls + started,
            nMoves |-> IF NextBase(kind) = NoSnapshot \/ (kind = "down" /\ ~isDrawing)
                       THEN 0
                       ELSE IF op = "paint" THEN obs.nMoves + 1
                       ELSE obs.nMoves,
            phase |-> NextPhase(kind),
            base |-> NextBase(kind),
            scen |-> NextScen(kind),
            full |-> IF NextScen(kind) < 3 THEN <<>>
                     ELSE IF obs.scen = 2 THEN history'
                     ELSE obs.full,
            budget |-> obs.budget,
            logging |-> obs.logging,
            log |-> IF obs.logging /\ pushes = 1
                    THEN Append(obs.log, Snapshot(drawing', mask'))
                    ELSE obs.log,
            pre |-> IF obs.logging /\ pushes = 1
                    THEN LET before == IF kind = "up" /\ obs.base # NoSnapshot
                                       THEN obs.base
                                       ELSE Snapshot(drawing, mask)
                         IN  saveHistory(obs.pre, historyStep, before.drawing,
                                         before.mask).history
                    ELSE obs.pre,
            drag |-> IF ~obs.logging THEN obs.drag
                     ELSE IF op = "down" /\ kind = "view"
                     THEN [pan |-> pan, pos |-> pos]
                     ELSE IF kind = "up" THEN NoDrag
                     ELSE obs.drag]

Observe(op, kind, pushes, started) ==
    ObserveAt(op, kind, pushes, started, <<0, 0>>)

FreshObs(budget, logging) ==
    [op |-> "init", nPushes |-> 0, nCalls |-> 0, nMoves |-> 0,
     phase |-> "idle", base |-> NoSnapshot, scen |-> -2, full |-> <<>>,
     budget |-> budget, logging |-> logging, log |-> <<>>, pre |-> <<>>,
     drag |-> NoDrag]

CanPush == obs.nPushes < obs.budget
CanCall == obs.nCalls < MaxCalls /\ CanPush

\* ------------------------------------------------------------------ Init
NoFx == [pc |-> "off"]

\* The state the "Initialize" effect leaves when imageSource is supplied: the
\* image is about to load.
InitFresh ==
    /\ imageSource = "file"
    /\ imgSrc = "original"
    /\ loadPending = TRUE
    /\ imgShown = FALSE
    /\ zoom = InitialZoom
    /\ pan = <<0, 0>>
    /\ mode = "move"
    /\ isDragging = FALSE
    /\ dragStart = <<0, 0>>
    /\ isProcessing = FALSE
    /\ isDrawing = FALSE
    /\ hasInteracted = FALSE
    /\ history = <<>>
    /\ historyStep = -1
    /\ brushColor = HexPink
    /\ brushSize = InitialBrushSize
    /\ drawing = BlankData
    /\ mask = BlankData
    /\ calls = <<>>

\* ---------------------------------------------------------------- actions
\* the pointer is on the viewport during a stroke or a drag (leaving it is
\* onMouseLeave = handleMouseUp), so the panels are clicked between them
PointerFree == ~isDrawing /\ ~isDragging

\* the pointer events of the session: the pointer at one place of the screen,
\* with the canvas under it (on its first pixel) or beside it
SessionEvents ==
    {PointerEvent(0, 0, left, 0, Width, Height) : left \in {0, Width}}

handleImageLoadSavesNothing ==
    /\ loadPending
    /\ CanPush
    /\ loadPending' = FALSE
    /\ imgShown' = TRUE
    /\ drawing' = BlankData
    /\ mask' = BlankData
    /\ UNCHANGED <<history, historyStep>>
    /\ Observe("load", "load", 1, 0)
    /\ UNCHANGED <<imageSource, imgSrc, zoom, pan, mode, isDragging, dragStart,
                   isProcessing, isDrawing, hasInteracted, brushColor, brushSize, calls, fx>>

\* <img onLoad={handleImageLoad}>: both canvases are resized (which clears
\* them) and the blank state is saved
handleImageLoad ==
    /\ loadPending
    /\ CanPush
    /\ loadPending' = FALSE
    /\ imgShown' = TRUE
    /\ drawing' = BlankData
    /\ mask' = BlankData
    /\ LET saved == saveHistory(history, historyStep, BlankData, BlankData)
       IN  history' = saved.history /\ historyStep' = saved.historyStep
    /\ Observe("load", "load", 1, 0)
    /\ UNCHANGED <<imageSource, imgSrc, zoom, pan, mode, isDragging, dragStart,
                   isProcessing, isDrawing, hasInteracted, brushColor, brushSize, calls, fx>>

\* ToolButton: onClick={() => setMode(tool)}
SelectTool(tool) ==
    /\ PointerFree
    /\ tool # mode
    /\ mode' = tool
    /\ UNCHANGED <<imageSource, imgSrc, loadPending, imgShown, zoom, pan,
                   isDragging, dragStart, isProcessing, isDrawing, hasInteracted,
                   history, historyStep, brushColor, brushSize, drawing, mask, calls, obs, fx>>

\* the colour buttons, shown in brush and bucket mode
SetBrushColor(c) ==
    /\ PointerFree
    /\ mode \in {"brush", "bucket"}
    /\ c # brushColor
    /\ brushColor' = c
    /\ UNCHANGED <<imageSource, imgSrc, loadPending, imgShown, zoom, pan, mode,
                   isDragging, dragStart, isProcessing, isDrawing, hasInteracted,
                   history, historyStep, brushSize, drawing, mask, calls, obs, fx>>

\* the Brush Size slider, shown outside move mode
SetBrushSize(n) ==
    /\ PointerFree
    /\ mode # "move"
    /\ n # brushSize
    /\ brushSize' = n
    /\ UNCHANGED <<imageSource, imgSrc, loadPending, imgShown, zoom, pan, mode,
                   isDragging, dragStart, isProcessing, isDrawing, hasInteracted,
                   history, historyStep, brushColor, drawing, mask, calls, obs, fx>>

\* the zoom slider: min 0.5, max 15
SetZoom(z) ==
    /\ PointerFree
    /\ z # zoom
    /\ zoom' = z
    /\ UNCHANGED <<imageSource, imgSrc, loadPending, imgShown, pan, mode,
                   isDragging, dragStart, isProcessing, isDrawing, hasInteracted,
                   history, historyStep, brushColor, brushSize, drawing, mask, calls, obs, fx>>

StrokeEndedAlways(drawingFlag, interactedFlag) == TRUE

\* "if (isDrawing && hasInteracted) saveHistory()"
StrokeEnded(drawingFlag, interactedFlag) == drawingFlag /\ interactedFlag

\* the viewport receives pointer events once an image is shown and while the
\* isProcessing overlay does not cover it
ViewportLive == imgShown /\ ~isProcessing

handleMouseDownPushesOnChange(e) ==
    /\ ViewportLive
    /\ IF mode = "move"
       THEN /\ isDragging' = TRUE
            /\ dragStart' = <<getPointerPos(e).x - pan[1], getPointerPos(e).y - pan[2]>>
            /\ Observe("down", "view", 0, 0)
            /\ UNCHANGED <<isDrawing, hasInteracted, drawing, mask, history, historyStep>>
       ELSE IF mode = "bucket"
       THEN /\ CanPush
            /\ LET filled == handleBucketFill(drawing, mask, e, brushColor)
                   saved == IF filled.drawing = drawing
                            THEN [history |-> history, historyStep |-> historyStep]
                            ELSE saveHistory(history, historyStep,
                                             filled.drawing, filled.mask)
               IN  /\ drawing' = filled.drawing
                   /\ mask' = filled.mask
                   /\ history' = saved.history
                   /\ historyStep' = saved.historyStep
            /\ Observe("down", "bucket", 1, 0)
            /\ UNCHANGED <<isDragging, dragStart, isDrawing, hasInteracted>>
       ELSE /\ CanPush
            /\ isDrawing' = TRUE
            /\ hasInteracted' = TRUE
            /\ LET drawn == draw(drawing, mask, e, mode, brushColor)
               IN  drawing' = drawn.drawing /\ mask' = drawn.mask
            /\ Observe("down", "down", 0, 0)
            /\ UNCHANGED <<isDragging, dragStart, history, historyStep>>
    /\ UNCHANGED <<imageSource, imgSrc, loadPending, imgShown, zoom, pan, mode,
                   isProcessing, brushColor, brushSize, calls, fx>>

handleMouseDownDragsFromOrigin(e) ==
    /\ ViewportLive
    /\ IF mode = "move"
       THEN /\ isDragging' = TRUE
            /\ dragStart' = <<getPointerPos(e).x, getPointerPos(e).y>>
            /\ ObserveAt("down", "view", 0, 0,
                         <<getPointerPos(e).x, getPointerPos(e).y>>)
            /\ UNCHANGED <<isDrawing, hasInteracted, drawing, mask, history, historyStep>>
       ELSE IF mode = "bucket"
       THEN /\ CanPush
            /\ LET filled == handleBucketFill(drawing, mask, e, brushColor)
                   saved == saveHistory(history, historyStep,
                                        filled.drawing, filled.mask)
               IN  /\ drawing' = filled.drawing
                   /\ mask' = filled.mask
                   /\ history' = saved.history
                   /\ historyStep' = saved.historyStep
            /\ Observe("down", "bucket", 1, 0)
            /\ UNCHANGED <<isDragging, dragStart, isDrawing, hasInteracted>>
       ELSE /\ CanPush
            /\ isDrawing' = TRUE
            /\ hasInteracted' = TRUE
            /\ LET drawn == draw(drawing, mask, e, mode, brushColor)
               IN  drawing' = drawn.drawing /\ mask' = drawn.mask
            /\ Observe("down", "down", 0, 0)
            /\ UNCHANGED <<isDragging, dragStart, history, historyStep>>
    /\ UNCHANGED <<imageSource, imgSrc, loadPending, imgShown, zoom, pan, mode,
                   isProcessing, brushColor, brushSize, calls, fx>>

handleMouseDown(e) ==
    /\ ViewportLive
    /\ IF mode = "move"
       THEN /\ isDragging' = TRUE
            /\ dragStart' = <<getPointerPos(e).x - pan[1], getPointerPos(e).y - pan[2]>>
            /\ ObserveAt("down", "view", 0, 0,
                         <<getPointerPos(e).x, getPointerPos(e).y>>)
            /\ UNCHANGED <<isDrawing, hasInteracted, drawing, mask, history, historyStep>>
       ELSE IF mode = "bucket"
       THEN /\ CanPush
            /\ LET filled == handleBucketFill(drawing, mask, e, brushColor)
                   saved == saveHistory(history, historyStep,
                                        filled.drawing, filled.mask)
               IN  /\ drawing' = filled.drawing
                   /\ mask' = filled.mask
                   /\ history' = saved.history
                   /\ historyStep' = saved.historyStep
            /\ Observe("down", "bucket", 1, 0)
            /\ UNCHANGED <<isDragging, dragStart, isDrawing, hasInteracted>>
       ELSE /\ CanPush
            /\ isDrawing' = TRUE
            /\ hasInteracted' = TRUE
            /\ LET drawn == draw(drawing, mask, e, mode, brushColor)
               IN  drawing' = drawn.drawing /\ mask' = drawn.mask
            /\ Observe("down", "down", 0, 0)
            /\ UNCHANGED <<isDragging, dragStart, history, historyStep>>
    /\ UNCHANGED <<imageSource, imgSrc, loadPending, imgShown, zoom, pan, mode,
                   isProcessing, brushColor, brushSize, calls, fx>>

handleMouseMove(e) ==
    /\ ViewportLive
    /\ IF mode = "move" /\ isDragging
       THEN /\ pan' = <<getPointerPos(e).x - dragStart[1],
                        getPointerPos(e).y - dragStart[2]>>
            /\ pan'[1] \in -(MaxPan * Width) .. (MaxPan * Width)
            /\ Observe("move", "move", 0, 0)
            /\ UNCHANGED <<drawing, mask>>
       ELSE IF isDrawing /\ mode # "move" /\ mode # "bucket"
       THEN /\ obs.nMoves < MaxMoves
            /\ LET drawn == draw(drawing, mask, e, mode, brushColor)
               IN  drawing' = drawn.drawing /\ mask' = drawn.mask
            /\ Observe("paint", "move", 0, 0)
            /\ UNCHANGED pan
       ELSE UNCHANGED <<pan, drawing, mask, obs>>
    /\ UNCHANGED <<imageSource, imgSrc, loadPending, imgShown, zoom, mode,
                   isDragging, dragStart, isProcessing, isDrawing, hasInteracted,
                   history, historyStep, brushColor, brushSize, calls, fx>>

\* onMouseUp, onMouseLeave and onTouchEnd
handleMouseUp ==
    /\ ViewportLive
    /\ isDragging' = FALSE
    /\ UNCHANGED <<drawing, mask>>
    /\ IF StrokeEnded(isDrawing, hasInteracted)
       THEN /\ CanPush
            /\ LET saved == saveHistory(history, historyStep, drawing, mask)
               IN  history' = saved.history /\ historyStep' = saved.historyStep
            /\ Observe("up", "up", 1, 0)
       ELSE /\ UNCHANGED <<history, historyStep>>
            /\ Observe("up", "up", 0, 0)
    /\ isDrawing' = FALSE
    /\ hasInteracted' = FALSE
    /\ UNCHANGED <<imageSource, imgSrc, loadPending, imgShown, zoom, pan, mode,
                   dragStart, isProcessing, brushColor, brushSize, calls, fx>>

UndoClickDropsSnapshot ==
    /\ PointerFree
    /\ mode # "move"
    /\ ~(historyStep < 0)
    /\ LET undone == handleUndo(history, historyStep, drawing, mask)
       IN  /\ drawing' = undone.drawing
           /\ mask' = undone.mask
           /\ historyStep' = undone.historyStep
           /\ history' = SubSeq(history, 1, undone.historyStep + 1)
    /\ Observe("undo", "undo", 0, 0)
    /\ UNCHANGED <<imageSource, imgSrc, loadPending, imgShown, zoom, pan, mode,
                   isDragging, dragStart, isProcessing, isDrawing, hasInteracted,
                   brushColor, brushSize, calls, fx>>

\* the Undo button: shown outside move mode, disabled while historyStep < 0
UndoClick ==
    /\ PointerFree
    /\ mode # "move"
    /\ ~(historyStep < 0)
    /\ LET undone == handleUndo(history, historyStep, drawing, mask)
       IN  /\ drawing' = undone.drawing
           /\ mask' = undone.mask
           /\ historyStep' = undone.historyStep
    /\ Observe("undo", "undo", 0, 0)
    /\ UNCHANGED <<imageSource, imgSrc, loadPending, imgShown, zoom, pan, mode,
                   isDragging, dragStart, isProcessing, isDrawing, hasInteracted,
                   history, brushColor, brushSize, calls, fx>>

ResetClickSavesNothing ==
    /\ PointerFree
    /\ mode # "move"
    /\ CanPush
    /\ drawing' = BlankData
    /\ mask' = BlankData
    /\ UNCHANGED <<history, historyStep>>
    /\ Observe("reset", "reset", 1, 0)
    /\ UNCHANGED <<imageSource, imgSrc, loadPending, imgShown, zoom, pan, mode,
                   isDragging, dragStart, isProcessing, isDrawing, hasInteracted,
                   brushColor, brushSize, calls, fx>>

\* the Reset button: clearCanvas on both canvases, then saveHistory()
ResetClick ==
    /\ PointerFree
    /\ mode # "move"
    /\ CanPush
    /\ drawing' = BlankData
    /\ mask' = BlankData
    /\ LET saved == saveHistory(history, historyStep, BlankData, BlankData)
       IN  history' = saved.history /\ historyStep' = saved.historyStep
    /\ Observe("reset", "reset", 1, 0)
    /\ UNCHANGED <<imageSource, imgSrc, loadPending, imgShown, zoom, pan, mode,
                   isDragging, dragStart, isProcessing, isDrawing, hasInteracted,
                   brushColor, brushSize, calls, fx>>

\* ------------------------------------------------------ collaborator calls
RemoveAt(seq, i) == SubSeq(seq, 1, i - 1) \o SubSeq(seq, i + 1, Len(seq))

\* what a detector returns: the faces, each as the pixels its padded ellipse
\* covers
FaceResults == { <<>>, << {0} >>, << {0}, {Width * Height - 1} >> }

\* "facesData.forEach(face => { ... ctx.ellipse(...); ctx.fill(); })"
RECURSIVE PaintFaces(_, _)
PaintFaces(m, faces) ==
    IF faces = <<>> THEN m
    ELSE PaintFaces(
             [p \in Pixels |->
                 IF p \in Head(faces)
                 THEN StrokePixel(m[p], MarkerColor, "source-over")
                 ELSE m[p]],
             Tail(faces))

\* the Auto-Detect Face button, shown in mask mode: handleFaceDetect up to its
\* first await (the native detector when the browser has one, else the AI
\* fallback). The handler keeps the history and historyStep of this render.
FaceDetectClick(hasNative) ==
    /\ PointerFree
    /\ mode = "mask"
    /\ CanCall
    /\ isProcessing' = TRUE
    /\ calls' = Append(calls, [kind |-> "face",
                               stage |-> IF hasNative THEN "native" ELSE "ai",
                               history |-> history,
                               historyStep |-> historyStep])
    /\ Observe("faceStart", "other", 0, 1)
    /\ UNCHANGED <<imageSource, imgSrc, loadPending, imgShown, zoom, pan, mode,
                   isDragging, dragStart, isDrawing, hasInteracted, history,
                   historyStep, brushColor, brushSize, drawing, mask, fx>>

FaceDetectFinishAlwaysSaves(i, faces) ==
    /\ calls' = RemoveAt(calls, i)
    /\ isProcessing' = FALSE
    /\ UNCHANGED drawing
    /\ CanPush
    /\ mask' = PaintFaces(mask, faces)
    /\ LET saved == saveHistory(calls[i].history, calls[i].historyStep,
                                drawing, mask')
       IN  history' = saved.history /\ historyStep' = saved.historyStep
    /\ Observe("faceDone", "other", 1, 0)
    /\ UNCHANGED <<imageSource, imgSrc, loadPending, imgShown, zoom, pan, mode,
                   isDragging, dragStart, isDrawing, hasInteracted, brushColor, brushSize,
                   fx>>

\* "3. Draw Results" and setIsProcessing(false), with the faces found
FaceDetectFinish(i, faces) ==
    /\ calls' = RemoveAt(calls, i)
    /\ isProcessing' = FALSE
    /\ UNCHANGED drawing
    /\ IF faces # <<>>
       THEN /\ CanPush
            /\ mask' = PaintFaces(mask, faces)
            /\ LET saved == saveHistory(calls[i].history, calls[i].historyStep,
                                        drawing, mask')
               IN  history' = saved.history /\ historyStep' = saved.historyStep
            /\ Observe("faceDone", "other", 1, 0)
       ELSE /\ UNCHANGED <<mask, history, historyStep>>
            /\ Observe("faceNone", "other", 0, 0)
    /\ UNCHANGED <<imageSource, imgSrc, loadPending, imgShown, zoom, pan, mode,
                   isDragging, dragStart, isDrawing, hasInteracted, brushColor, brushSize,
                   fx>>

FaceNativeSettlesThenAsksAi(i, found, faces) ==
    /\ i \in 1 .. Len(calls)
    /\ calls[i].kind = "face" /\ calls[i].stage = "native"
    /\ calls' = [calls EXCEPT ![i].stage = "ai"]
    /\ Observe("faceFallback", "other", 0, 0)
    /\ UNCHANGED <<imageSource, imgSrc, loadPending, imgShown, zoom, pan,
                   mode, isDragging, dragStart, isProcessing, isDrawing,
                   hasInteracted, history, historyStep, brushColor, brushSize,
                   drawing, mask, fx>>

\* the native detector settles: with faces the handler finishes, with none
\* (or a throw: found is FALSE) it goes on to the AI fallback
FaceNativeSettles(i, found, faces) ==
    /\ i \in 1 .. Len(calls)
    /\ calls[i].kind = "face" /\ calls[i].stage = "native"
    /\ IF found /\ faces # <<>>
       THEN FaceDetectFinish(i, faces)
       ELSE /\ calls' = [calls EXCEPT ![i].stage = "ai"]
            /\ Observe("faceFallback", "other", 0, 0)
            /\ UNCHANGED <<imageSource, imgSrc, loadPending, imgShown, zoom, pan,
                           mode, isDragging, dragStart, isProcessing, isDrawing,
                           hasInteracted, history, historyStep, brushColor, brushSize,
                           drawing, mask, fx>>

\* onDetectFaces settles: faces, none, or a throw (found is FALSE)
FaceAiSettles(i, found, faces) ==
    /\ i \in 1 .. Len(calls)
    /\ calls[i].kind = "face" /\ calls[i].stage = "ai"
    /\ FaceDetectFinish(i, IF found THEN faces ELSE <<>>)

\* the Generate button, disabled while isProcessing: handleAiEdit up to its
\* await; a string imageSource is refused with an alert
AiEditClick ==
    /\ PointerFree
    /\ ~isProcessing
    /\ CanCall
    /\ IF imageSource # "file"
       THEN /\ Observe("editRefused", "view", 0, 0)
            /\ UNCHANGED <<isProcessing, calls>>
       ELSE /\ isProcessing' = TRUE
            /\ calls' = Append(calls, [kind |-> "edit", stage |-> "await",
                                       history |-> history,
                                       historyStep |-> historyStep])
            /\ Observe("editStart", "other", 0, 1)
    /\ UNCHANGED <<imageSource, imgSrc, loadPending, imgShown, zoom, pan, mode,
                   isDragging, dragStart, isDrawing, hasInteracted, history,
                   historyStep, brushColor, brushSize, drawing, mask, fx>>

\* onAiEdit resolves: the try block after the await, then finally.
\* setHistory([]) and setHistoryStep(-1) are followed in the same batch by
\* saveHistory()'s own setHistory and setHistoryStep, which are the ones kept.
AiEditResolves(i) ==
    /\ i \in 1 .. Len(calls)
    /\ calls[i].kind = "edit"
    /\ CanPush
    /\ calls' = RemoveAt(calls, i)
    /\ imgSrc' = "generated"
    /\ loadPending' = TRUE
    /\ zoom' = InitialZoom
    /\ pan' = <<0, 0>>
    /\ drawing' = BlankData
    /\ mask' = BlankData
    /\ mode' = "move"
    /\ LET saved == saveHistory(calls[i].history, calls[i].historyStep,
                                BlankData, BlankData)
       IN  history' = saved.history /\ historyStep' = saved.historyStep
    /\ isProcessing' = FALSE
    /\ Observe("editDone", "editDone", 1, 0)
    /\ UNCHANGED <<imageSource, imgShown, isDragging, dragStart, isDrawing,
                   hasInteracted, brushColor, brushSize, fx>>

AiEditRejectsKeepsBusy(i) ==
    /\ i \in 1 .. Len(calls)
    /\ calls[i].kind = "edit"
    /\ calls' = RemoveAt(calls, i)
    /\ Observe("editFailed", "other", 0, 0)
    /\ UNCHANGED <<imageSource, imgSrc, loadPending, imgShown, zoom, pan, mode,
                   isDragging, dragStart, isDrawing, hasInteracted, history,
                   historyStep, brushColor, brushSize, drawing, mask, isProcessing, fx>>

\* onAiEdit rejects: the catch block, then finally
AiEditRejects(i) ==
    /\ i \in 1 .. Len(calls)
    /\ calls[i].kind = "edit"
    /\ calls' = RemoveAt(calls, i)
    /\ isProcessing' = FALSE
    /\ Observe("editFailed", "other", 0, 0)
    /\ UNCHANGED <<imageSource, imgSrc, loadPending, imgShown, zoom, pan, mode,
                   isDragging, dragStart, isDrawing, hasInteracted, history,
                   historyStep, brushColor, brushSize, drawing, mask, fx>>

\* ------------------------------------------------------- the session's Spec
Init == InitFresh /\ obs = FreshObs(MaxPushes, FALSE) /\ fx = NoFx

Next ==
    \/ handleImageLoad
    \/ \E tool \in ToolModes : SelectTool(tool)
    \/ \E e \in SessionEvents : handleMouseDown(e)
    \/ \E e \in SessionEvents : handleMouseMove(e)
    \/ handleMouseUp
    \/ UndoClick
    \/ ResetClick
    \/ \E n \in BOOLEAN : FaceDetectClick(n)
    \/ \E i \in 1 .. Len(calls), found \in BOOLEAN, faces \in FaceResults :
           FaceNativeSettles(i, found, faces)
    \/ \E i \in 1 .. Len(calls), found \in BOOLEAN, faces \in FaceResults :
           FaceAiSettles(i, found, faces)
    \/ AiEditClick
    \/ \E i \in 1 .. Len(calls) : AiEditResolves(i)
    \/ \E i \in 1 .. Len(calls) : AiEditRejects(i)

Spec == Init /\ [][Next]_vars

\* ------------------------------------------- strokes and undo by themselves
\* The session with the brush only, the pointer on either of
\* the first two pixels, and no collaborator call.
UndoTools == {"brush"}

UndoEvents == {PointerEvent(cx, 0, 0, 0, Width, Height) : cx \in {0, 1}}

UndoInit == InitFresh /\ obs = FreshObs(MaxUndoPushes, FALSE) /\ fx = NoFx

UndoNext ==
    \/ handleImageLoad
    \/ \E tool \in UndoTools : SelectTool(tool)
    \/ \E c \in Palette : SetBrushColor(c)
    \/ \E e \in UndoEvents : handleMouseDown(e)
    \/ \E e \in UndoEvents : handleMouseMove(e)
    \/ handleMouseUp
    \/ UndoClick

SpecUndo == UndoInit /\ [][UndoNext]_vars

\* ------------------------------------------------ strokes with every tool
\* The session with the three stroke tools and the bucket, both colours, the
\* pointer on either of the first two pixels, and neither undo nor a
\* collaborator call.
StrokeTools == StrokeModes \cup {"bucket"}

StrokeInit == InitFresh /\ obs = FreshObs(MaxStrokePushes, FALSE) /\ fx = NoFx

StrokeNext ==
    \/ handleImageLoad
    \/ \E tool \in StrokeTools : SelectTool(tool)
    \/ \E c \in Palette : SetBrushColor(c)
    \/ \E e \in UndoEvents : handleMouseDown(e)
    \/ \E e \in UndoEvents : handleMouseMove(e)
    \/ handleMouseUp

SpecStroke == StrokeInit /\ [][StrokeNext]_vars

\* ------------------------------------------------------ handleUndo by itself
\* handleUndo as a function of the history, the cursor and the two canvases,
\* called again and again, also where the Undo button is disabled.
UndoCallSnapshots ==
    {Snapshot([BlankData EXCEPT ![0] = dpx], [BlankData EXCEPT ![0] = mpx]) :
        dpx \in {Transparent, FillColor(HexPink)},
        mpx \in {Transparent, MarkerColor}}

UndoCallHistories ==
    UNION {[1 .. n -> UndoCallSnapshots] : n \in 0 .. MaxUndoLen}

UndoCallInit ==
    /\ InitFresh
    /\ obs = FreshObs(0, FALSE)
    /\ \E h \in UndoCallHistories, step \in -1 .. MaxUndoLen - 1,
          c \in UndoCallSnapshots :
          /\ step < Len(h)
          /\ fx = [pc |-> "undo", history |-> h, historyStep |-> step,
                   drawing |-> c.drawing, mask |-> c.mask,
                   start |-> step, undos |-> 0]

UndoCall ==
    /\ fx.pc = "undo"
    /\ fx.undos < MaxUndoCalls
    /\ LET undone == handleUndo(fx.history, fx.historyStep, fx.drawing, fx.mask)
       IN  fx' = [fx EXCEPT !.drawing = undone.drawing,
                            !.mask = undone.mask,
                            !.historyStep = undone.historyStep,
                            !.undos = fx.undos + 1]
    /\ UNCHANGED <<sessionVars, obs>>

UndoCallNext == UndoCall

SpecUndoCall == UndoCallInit /\ [][UndoCallNext]_vars

\* ------------------------------------------------- pushes past the capacity
\* The session with the brush, Reset and no undo, every pushed
\* snapshot logged; the canvas changes between consecutive pushes at most
\* MaxVariations times.
Variations(log) ==
    Cardinality({k \in 1 .. Len(log) - 1 : log[k] # log[k + 1]})

CapTools == {"brush"}

CapInit == InitFresh /\ obs = FreshObs(MaxCapPushes, TRUE) /\ fx = NoFx

CapNext ==
    /\ \/ handleImageLoad
       \/ \E tool \in CapTools : SelectTool(tool)
       \/ \E c \in Palette : SetBrushColor(c)
       \/ \E e \in SessionEvents : handleMouseDown(e)
       \/ handleMouseUp
       \/ ResetClick
    /\ Variations(obs'.log) <= MaxVariations

SpecCap == CapInit /\ [][CapNext]_vars

\* --------------------------------------------- fills past the capacity
\* The session with the bucket in the initial brush colour and Reset only,
\* logged and bounded like the one above; the pointer on any pixel of the
\* canvas, or beside the canvas.
CapFillTools == {"bucket"}

CapFillEvents ==
    {PointerEvent(cx, cy, 0, 0, Width, Height) :
        cx \in 0 .. Width - 1, cy \in 0 .. Height - 1} \cup
    {PointerEvent(0, 0, Width, 0, Width, Height)}

CapFillNext ==
    /\ \/ handleImageLoad
       \/ \E tool \in CapFillTools : SelectTool(tool)
       \/ \E e \in CapFillEvents : handleMouseDown(e)
       \/ handleMouseUp
       \/ ResetClick
    /\ Variations(obs'.log) <= MaxVariations

SpecCapFill == CapInit /\ [][CapFillNext]_vars

\* ------------------------------------------------ the bucket fill by itself
\* handleBucketFill as a function of the two canvases, the click and the
\* brush colour: every input within the bounds, then the fill, then the same
\* fill once more.
DrawColors == {Transparent} \cup {FillColor(c) : c \in Palette}

\* mask pixels: untouched, the marker at full coverage, the marker where
\* antialiasing leaves an alpha at and just above the barrier, and the marker
\* painted over itself until it is opaque
MaskColors ==
    {Transparent} \cup
    {<<0, 255, 100, a>> : a \in {MaskBarrier, MaskBarrier + 1, 128, OpaqueAlpha}}

FillDrawings ==
    {d \in [Pixels -> DrawColors] :
        Cardinality({p \in Pixels : d[p] # Transparent}) <= MaxPainted}

FillMasks ==
    {m \in [Pixels -> MaskColors] :
        Cardinality({p \in Pixels : m[p] # Transparent}) <= MaxMasked}

\* clicks on every pixel and one pixel beyond each edge
FillEvents ==
    {PointerEvent(cx, cy, 0, 0, Width, Height) :
        cx \in -1 .. Width, cy \in -1 .. Height}

FillInit ==
    /\ InitFresh
    /\ obs = FreshObs(0, FALSE)
    /\ fx \in [pc : {"input"}, drawing : FillDrawings, mask : FillMasks,
               e : FillEvents, brushColor : Palette,
               out : {BlankSnapshot}, again : {BlankSnapshot}]

FillOnce ==
    /\ fx.pc = "input"
    /\ fx' = [fx EXCEPT !.pc = "filled",
                        !.out = handleBucketFill(fx.drawing, fx.mask, fx.e,
                                                 fx.brushColor)]
    /\ UNCHANGED <<sessionVars, obs>>

FillAgain ==
    /\ fx.pc = "filled"
    /\ fx' = [fx EXCEPT !.pc = "refilled",
                        !.again = handleBucketFill(fx.out.drawing, fx.out.mask,
                                                   fx.e, fx.brushColor)]
    /\ UNCHANGED <<sessionVars, obs>>

FillNext == FillOnce \/ FillAgain

SpecFill == FillInit /\ [][FillNext]_vars

\* ------------------------------------------------- properties of the fill
\* the click of the fill under check, as pixel coordinates and as an index
FxSeed == getCanvasCoordinates(fx.e)
FxSeedPos == FxSeed.y * Width + FxSeed.x
FxFill == FillColor(fx.brushColor)
FxTarget == ReadPixel(fx.drawing, FxSeedPos)

Adjacent(p, q) ==
    LET px == p % Width
        py == p \div Width
        qx == q % Width
        qy == q \div Width
    IN  \/ (py = qy /\ (px = qx + 1 \/ qx = px + 1))
        \/ (px = qx /\ (py = qy + 1 \/ qy = py + 1))

\* the pixels a fill may pass: mask alpha at most the barrier, colour = target
Passable(d, m, target) ==
    {p \in Pixels : m[p][4] <= MaskBarrier /\ d[p] = target}

RECURSIVE Grow(_, _)
Grow(S, ok) ==
    LET more == S \cup {q \in ok : \E p \in S : Adjacent(p, q)}
    IN  IF more = S THEN S ELSE Grow(more, ok)

\* the 4-connected region of passable pixels that holds the seed
Region(d, m, seedPos, target) ==
    IF seedPos \in Passable(d, m, target)
    THEN Grow({seedPos}, Passable(d, m, target))
    ELSE {}

FxRegion == Region(fx.drawing, fx.mask, FxSeedPos, FxTarget)

\* the same worklist processed first-in first-out
RECURSIVE QueueFill(_, _, _, _, _)
QueueFill(pixels, maskPixels, queue, start, fill) ==
    IF queue = <<>> THEN pixels
    ELSE LET cx == Head(queue)[1]
             cy == Head(queue)[2]
             pos == cy * Width + cx
         IN  IF cx < 0 \/ cx >= Width \/ cy < 0 \/ cy >= Height
             THEN QueueFill(pixels, maskPixels, Tail(queue), start, fill)
             ELSE IF maskPixels[pos][4] > MaskBarrier \/ pixels[pos] # start
             THEN QueueFill(pixels, maskPixels, Tail(queue), start, fill)
             ELSE QueueFill([pixels EXCEPT ![pos] = fill], maskPixels,
                            Tail(queue) \o << <<cx, cy - 1>>, <<cx, cy + 1>>,
                                              <<cx - 1, cy>>, <<cx + 1, cy>> >>,
                            start, fill)

\* C1: a bucket fill leaves every draw pixel whose mask alpha is above the
\* barrier (alpha > 10) with the RGBA it had before the fill.
C1_MaskedPixelsKept ==
    fx.pc \in {"filled", "refilled"} =>
        \A p \in Pixels :
            fx.mask[p][4] > MaskBarrier => fx.out.drawing[p] = fx.drawing[p]

\* a fill that recoloured a pixel next to a masked pixel of the target colour
C1_Witness ==
    /\ fx.pc = "filled"
    /\ \E p, q \in Pixels :
          /\ fx.mask[p][4] > MaskBarrier
          /\ fx.drawing[p] = FxTarget
          /\ Adjacent(p, q)
          /\ fx.out.drawing[q] # fx.drawing[q]

C10_SecondFillChangesNothing ==
    (fx.pc = "refilled" /\ InBounds(FxSeed)) =>
        fx.again.drawing = fx.out.drawing

\* a second fill after a first fill that recoloured pixels
C10_Witness ==
    /\ fx.pc = "refilled"
    /\ InBounds(FxSeed)
    /\ fx.out.drawing # fx.drawing
    /\ Cardinality(FxRegion) >= 2

\* ---------------------------------------------- properties of the session
\* C4: in every reachable state of a session, -1 <= historyStep and
\* historyStep < history.length.
C4_CursorInRange == -1 <= historyStep /\ historyStep < Len(history)

\* an undo from the first of several snapshots: the cursor is before-first
C4_Witness == obs.op = "undo" /\ historyStep = -1 /\ Len(history) >= 2

C7_OnePushPerStroke ==
    [][ /\ (~isDrawing /\ isDrawing') =>
               UNCHANGED <<history, historyStep>>
        /\ (obs'.op = "paint" /\ obs' # obs) =>
               UNCHANGED <<history, historyStep>>
        /\ (isDrawing /\ ~isDrawing') =>
               /\ Len(history) < HistoryCap =>
                      history' = Append(SubSeq(history, 1, historyStep + 1),
                                        Snapshot(drawing, mask))
               /\ historyStep' = Len(history') - 1
               /\ obs'.nPushes = obs.nPushes + 1
        /\ (obs'.op = "up" /\ ~isDrawing) =>
               UNCHANGED <<history, historyStep>>
      ]_vars

\* a stroke with a painting pointer-move has ended and pushed its snapshot
C7_Witness ==
    /\ obs.op = "up"
    /\ obs.phase = "stroked"
    /\ obs.nMoves >= 1
    /\ history[historyStep + 1] = Snapshot(drawing, mask)
    /\ history[historyStep + 1] # obs.base

\* C8: when a background generation call succeeds the draw and mask layers are
\* blank, zoom is 1 and pan is (0,0); once the generated image has loaded, the
\* history is exactly one blank snapshot and historyStep = 0.
C8_GenerationResetsSession ==
    /\ obs.op = "editDone" =>
           /\ drawing = BlankData /\ mask = BlankData
           /\ zoom = InitialZoom /\ pan = <<0, 0>>
    /\ obs.phase = "reloaded" =>
           history = <<BlankSnapshot>> /\ historyStep = 0

\* after a generation and the reload, a snapshot with content is still in
\* the history
C8_Witness ==
    /\ obs.phase = "reloaded"
    /\ \E k \in 1 .. Len(history) : history[k] # BlankSnapshot

\* C9: at most one collaborator call is in flight at any time.
C9_OneCallInFlight == Len(calls) <= 1

\* two face detections in flight at once
C9_Witness ==
    /\ Len(calls) = 2
    /\ \A k \in 1 .. 2 : calls[k].kind = "face" /\ calls[k].stage = "ai"

\* ------------------------------------------------ properties of the history
LastN(seq, n) ==
    IF Len(seq) <= n THEN seq ELSE SubSeq(seq, Len(seq) - n + 1, Len(seq))

\* C5: the history never holds more than HistoryCap snapshots; after any
\* number of pushes it holds the most recently pushed snapshots, at most
\* HistoryCap of them, in push order, and the cursor is on the last one.
C5_HistoryCapped ==
    /\ Len(history) <= HistoryCap
    /\ history = LastN(obs.log, HistoryCap)
    /\ historyStep = Len(history) - 1

\* two snapshots have been evicted, and the history kept is not uniform
C5_Witness ==
    /\ Len(obs.log) = HistoryCap + 2
    /\ Len(history) = HistoryCap
    /\ obs.log[1] # obs.log[3]
    /\ history[1] # history[HistoryCap]

\* C6: a push made anywhere in the history keeps the snapshots up to the
\* cursor, appends the new one and moves the cursor to it; and after the image
\* load, three brush strokes, two undos and one more brush stroke the history
\* has length 3 and historyStep = 2: the first two entries of the history as
\* it was after the third stroke, then the new stroke's snapshot.
C6_PushTruncates ==
    /\ [][ obs'.nPushes = obs.nPushes + 1 =>
               /\ history' = Append(SubSeq(history, 1, historyStep + 1),
                                    Snapshot(drawing', mask'))
               /\ historyStep' = historyStep + 1
         ]_vars
    /\ [](obs.scen = 6 =>
               /\ Len(history) = 3
               /\ historyStep = 2
               /\ SubSeq(history, 1, 2) = SubSeq(obs.full, 1, 2)
               /\ obs.op = "up" => history[3] = Snapshot(drawing, mask))

\* the scenario has run, and the new stroke's snapshot is neither of the two
\* that the undos stepped back over
C6_Witness ==
    /\ obs.scen = 6
    /\ obs.op = "up"
    /\ Len(obs.full) = 4
    /\ obs.full[3] # obs.full[4]
    /\ history[3] # obs.full[3]
    /\ history[3] # obs.full[4]

\* ------------------------------------------------- properties of the tools
\* the pixel a pointer event lands on
SeedOf(e) == getCanvasCoordinates(e)
SeedPos(e) == SeedOf(e).y * Width + SeedOf(e).x

\* C11: a bucket click whose seed pixel already has exactly the fill colour
\* leaves the canvases, the history and historyStep unchanged.
C11_SameColourClickKeepsHistory ==
    [][ \A e \in SessionEvents :
            ( /\ mode = "bucket"
              /\ handleMouseDown(e)
              /\ InBounds(SeedOf(e))
              /\ drawing[SeedPos(e)] = FillColor(brushColor) ) =>
                UNCHANGED <<drawing, mask, history, historyStep>>
      ]_vars

\* a bucket click on a pixel of the fill colour has pushed a second copy of
\* the snapshot the cursor was on
C11_Witness ==
    /\ mode = "bucket"
    /\ obs.op = "down"
    /\ drawing[0] = FillColor(brushColor)
    /\ historyStep >= 1
    /\ Len(history) = historyStep + 1
    /\ history[historyStep + 1] = history[historyStep]

\* C12: in bucket mode a pointer-down makes the canvases those of one flood
\* fill at the pointer, and pushes one snapshot of them after the cursor, also
\* when the fill changes no pixel; a pointer-move and a pointer-up in bucket
\* mode leave the canvases, the history and historyStep unchanged.
C12_BucketDownFillsAndPushes ==
    [][ /\ \A e \in SessionEvents :
               (mode = "bucket" /\ handleMouseDown(e)) =>
                   /\ drawing' = handleBucketFill(drawing, mask, e, brushColor).drawing
                   /\ mask' = mask
                   /\ Len(history) < HistoryCap =>
                          history' = Append(SubSeq(history, 1, historyStep + 1),
                                            Snapshot(drawing', mask'))
                   /\ historyStep' = Len(history') - 1
                   /\ obs'.nPushes = obs.nPushes + 1
        /\ \A e \in SessionEvents :
               (mode = "bucket" /\ (handleMouseMove(e) \/ handleMouseUp)) =>
                   UNCHANGED <<drawing, mask, history, historyStep>>
      ]_vars

\* a bucket click that filled, then one that changed no pixel and still pushed
C12_Witness ==
    /\ mode = "bucket"
    /\ obs.op = "down"
    /\ drawing[0] = FillColor(brushColor)
    /\ historyStep >= 2
    /\ history[historyStep + 1] = history[historyStep]
    /\ history[historyStep] # history[historyStep - 1]

\* C16: the mode is one of the five tool modes, and once the image has loaded
\* a step that changes the mode is the selection of a tool.
C16_ModeChangesOnlyBySelection ==
    /\ [](mode \in ToolModes)
    /\ [][ (imgShown /\ mode' # mode) =>
               \E tool \in ToolModes : SelectTool(tool) ]_vars

\* a generation has succeeded and left move mode where the user had the brush
C16_Witness ==
    /\ imgShown
    /\ obs.op = "editDone"
    /\ mode = "move"
    /\ \E k \in 1 .. Len(history) : history[k] # BlankSnapshot

\* C18: in move mode a pointer-down, the pointer-moves of the drag it starts
\* and the pointer-up that ends it leave the draw layer, the mask layer, the
\* history and historyStep unchanged.
C18_MoveSequenceKeepsRaster ==
    [][ \A e \in SessionEvents :
            ( /\ mode = "move"
              /\ \/ handleMouseDown(e)
                 \/ isDragging /\ handleMouseMove(e)
                 \/ isDragging /\ handleMouseUp ) =>
                UNCHANGED <<drawing, mask, history, historyStep>>
      ]_vars

\* a drag in move mode is under way while a stroke is still pending
C18_Witness ==
    /\ mode = "move"
    /\ isDragging
    /\ isDrawing /\ hasInteracted

\* C19: the step that delivers the failure of a background generation leaves
\* the image, both layers, the history, historyStep, zoom, pan and the mode
\* unchanged, and clears isProcessing.
C19_FailedGenerationKeepsState ==
    [][ \A i \in 1 .. Len(calls) :
            AiEditRejects(i) =>
                /\ UNCHANGED <<imageSource, imgSrc, drawing, mask, history,
                               historyStep, zoom, pan, mode>>
                /\ isProcessing' = FALSE
      ]_vars

\* a generation has failed in a session with painted layers and history
C19_Witness ==
    /\ obs.op = "editFailed"
    /\ ~isProcessing
    /\ drawing # BlankData
    /\ mode # "move"
    /\ historyStep >= 1

\* C20: the step in which the AI detector fails or returns no face, and the
\* step in which the native detector does, leave the mask layer, the draw
\* layer, the history and historyStep unchanged.
C20_NoFacesNoChange ==
    [][ \A i \in 1 .. Len(calls), found \in BOOLEAN, faces \in FaceResults :
            ( /\ ~found \/ faces = <<>>
              /\ FaceNativeSettles(i, found, faces) \/ FaceAiSettles(i, found, faces)
            ) => UNCHANGED <<drawing, mask, history, historyStep>>
      ]_vars

\* a detection has ended with no face, on a mask layer that was painted
C20_Witness ==
    /\ obs.op = "faceNone"
    /\ mask # BlankData
    /\ calls = <<>>

\* ------------------------------------------------ scenarios of the fill
\* the pixels of the square of half-width r centred on the seed
SquareAround(c, r) ==
    {p \in Pixels :
        /\ (p % Width) - c.x \in -r .. r
        /\ (p \div Width) - c.y \in -r .. r}

\* the mask layer is an opaque square centred on the seed and nothing else
FxMaskIsSquareOnSeed ==
    \E r \in 0 .. Width :
        \A p \in Pixels :
            IF p \in SquareAround(FxSeed, r)
            THEN fx.mask[p][4] = OpaqueAlpha
            ELSE fx.mask[p] = Transparent

\* C14: on a transparent draw layer, with an opaque mask square centred on the
\* in-bounds seed, the fill leaves every masked pixel transparent and gives
\* every pixel outside the square the fill colour.
C14_FillsAroundMaskedSeed ==
    ( /\ fx.pc = "filled"
      /\ fx.drawing = BlankData
      /\ InBounds(FxSeed)
      /\ FxMaskIsSquareOnSeed ) =>
        \A p \in Pixels :
            fx.out.drawing[p] =
                IF fx.mask[p][4] = OpaqueAlpha THEN Transparent ELSE FxFill

\* the seed is masked, pixels around it are not, and the fill changed nothing
C14_Witness ==
    /\ fx.pc = "filled"
    /\ fx.drawing = BlankData
    /\ InBounds(FxSeed)
    /\ FxMaskIsSquareOnSeed
    /\ \E p \in Pixels : fx.mask[p] = Transparent
    /\ fx.out.drawing = BlankData

\* C13 as claimed: on a transparent draw layer with an empty mask layer, a
\* bucket click on any pixel gives every pixel the fill colour, pushes one
\* snapshot and increases historyStep by exactly 1.
C13_FillOfBlankAdvancesCursor ==
    [][ \A e \in CapFillEvents :
            ( /\ mode = "bucket"
              /\ handleMouseDown(e)
              /\ InBounds(SeedOf(e))
              /\ drawing = BlankData /\ mask = BlankData ) =>
                /\ drawing' = [p \in Pixels |-> FillColor(brushColor)]
                /\ mask' = mask
                /\ obs'.log = Append(obs.log, Snapshot(drawing', mask'))
                /\ history'[Len(history')] = Snapshot(drawing', mask')
                /\ historyStep' = historyStep + 1
      ]_vars

\* C13 as amended: ... and increases historyStep by exactly 1, unless the
\* cursor is on the last of HistoryCap snapshots: then the oldest snapshot is
\* evicted and historyStep stays HistoryCap - 1.
C13_FillOfBlankPushesOne ==
    [][ \A e \in CapFillEvents :
            ( /\ mode = "bucket"
              /\ handleMouseDown(e)
              /\ InBounds(SeedOf(e))
              /\ drawing = BlankData /\ mask = BlankData ) =>
                /\ drawing' = [p \in Pixels |-> FillColor(brushColor)]
                /\ mask' = mask
                /\ obs'.log = Append(obs.log, Snapshot(drawing', mask'))
                /\ history'[Len(history')] = Snapshot(drawing', mask')
                /\ historyStep' = IF historyStep = HistoryCap - 1
                                  THEN HistoryCap - 1
                                  ELSE historyStep + 1
      ]_vars

\* a blank canvas was filled while the history was full
C13_Witness ==
    /\ mode = "bucket"
    /\ obs.op = "down"
    /\ Len(obs.log) > HistoryCap + 1
    /\ obs.log[Len(obs.log) - 1] = BlankSnapshot
    /\ \A p \in Pixels : drawing[p] = FillColor(brushColor)
    /\ historyStep = HistoryCap - 1

\* C15: an undo made when historyStep = -1 leaves the draw layer, the mask
\* layer, the history and historyStep as they are.
C15_UndoBeforeFirstIsNoOp ==
    [][ (fx.pc = "undo" /\ fx.historyStep = -1) =>
            /\ fx'.drawing = fx.drawing
            /\ fx'.mask = fx.mask
            /\ fx'.history = fx.history
            /\ fx'.historyStep = -1
      ]_vars

\* undone from the second snapshot down to before-first, then once more
C15_Witness ==
    /\ fx.pc = "undo"
    /\ fx.start >= 1
    /\ fx.undos = fx.start + 2
    /\ fx.historyStep = -1

\* source-over of the marker on a mask pixel of alpha a: the alpha it leaves
MarkerOver(a) == 128 + (a * 127) \div 255

\* C17: a step of a stroke in brush or eraser mode leaves the mask layer
\* unchanged; a step of a stroke in mask mode leaves the draw layer unchanged,
\* and every mask pixel it changes gets the marker's red, green and blue
\* (0, 255, 100) at half coverage over what was there, whatever brushColor is.
C17_StrokeRouting ==
    [][ \A e \in UndoEvents :
            ( /\ mode \in StrokeModes
              /\ \/ handleMouseDown(e)
                 \/ isDrawing /\ handleMouseMove(e)
                 \/ handleMouseUp ) =>
                /\ mode \in {"brush", "eraser"} => mask' = mask
                /\ mode = "mask" =>
                       /\ drawing' = drawing
                       /\ \A p \in Pixels :
                              mask'[p] # mask[p] =>
                                  mask'[p] = <<0, 255, 100, MarkerOver(mask[p][4])>>
      ]_vars

\* a mask stroke has painted while the brush colour was the second one and
\* the draw layer held a brush stroke
C17_Witness ==
    /\ mode = "mask"
    /\ obs.op \in {"down", "paint"}
    /\ isDrawing
    /\ brushColor = HexCyan
    /\ mask # BlankData
    /\ drawing # BlankData

C22_SessionStartsBlank ==
    [][ /\ (InitFresh /\ handleImageLoad) =>
              /\ drawing' = BlankData /\ mask' = BlankData
              /\ zoom' = InitialZoom
              /\ pan' = <<0, 0>>
              /\ mode' = "move"
              /\ history' = <<BlankSnapshot>>
              /\ historyStep' = 0
        /\ (obs.scen = 1 /\ UndoClick) =>
              drawing' = BlankData /\ mask' = BlankData
      ]_vars

\* the first stroke of a session has been undone: the layers are blank again
\* and the cursor is back on the blank snapshot of the load
C22_Witness ==
    /\ obs.op = "undo"
    /\ Len(history) = 2
    /\ history[1] = BlankSnapshot
    /\ history[2].drawing # BlankData
    /\ historyStep = 0
    /\ drawing = BlankData /\ mask = BlankData

\* ------------------------------------------------------------------ export
\* Lengths and factors are exact fractions <<numerator, denominator>> in
\* lowest terms with a positive denominator.
RECURSIVE Gcd(_, _)
Gcd(a, b) == IF b = 0 THEN a ELSE Gcd(b, a % b)

Abs(n) == IF n < 0 THEN -n ELSE n

Rat(n, d) ==
    LET g == Gcd(Abs(n), Abs(d))
        sign == IF d < 0 THEN -1 ELSE 1
    IN  << (sign * n) \div g, (sign * d) \div g >>

RatAdd(a, b) == Rat(a[1] * b[2] + b[1] * a[2], a[2] * b[2])
RatMul(a, b) == Rat(a[1] * b[1], a[2] * b[2])
RatNeg(a) == << -a[1], a[2] >>
RatHalf(a) == Rat(a[1], 2 * a[2])

\* const VIEWPORT_SIZE = 500
VIEWPORT_SIZE == 500
\* const outputSize = 1024
outputSize == 1024

\* the zoom state, kept in tenths, as the factor it is
ZoomFactor(z) == Rat(z, 10)

\* a 2D context's transform restricted to what handleSave uses: one scale for
\* both axes and a translation; a point (x, y) of user space lands on
\* (s * x + tx, s * y + ty)
IdentityTransform == [s |-> Rat(1, 1), tx |-> Rat(0, 1), ty |-> Rat(0, 1)]

\* ctx.translate(x, y)
Translate(t, x, y) ==
    [t EXCEPT !.tx = RatAdd(@, RatMul(t.s, x)), !.ty = RatAdd(@, RatMul(t.s, y))]

\* ctx.scale(z, z)
Scale(t, z) == [t EXCEPT !.s = RatMul(@, z)]

\* where the transform t puts the point (x, y)
Apply(t, x, y) ==
    <<RatAdd(RatMul(t.s, x), t.tx), RatAdd(RatMul(t.s, y), t.ty)>>

\* the point i/w, j/h of the way across the rectangle r
PointOfRect(r, i, w, j, h) ==
    <<RatAdd(r.x, RatMul(Rat(i, w), r.w)), RatAdd(r.y, RatMul(Rat(j, h), r.h))>>

handleSaveKeepsViewportPan(shown, src, natW, natH, drawingCanvas, maskCanvas, z, p) ==
    LET t == Scale(Translate(Translate(IdentityTransform,
                                       RatHalf(Rat(outputSize, 1)),
                                       RatHalf(Rat(outputSize, 1))),
                             Rat(p[1], 1), Rat(p[2], 1)),
                   ZoomFactor(z))
        aspect == Rat(natW, natH)
        drawWidth == RatMul(Rat(outputSize, 1), aspect)
        drawHeight == Rat(outputSize, 1)
        box == [x |-> RatNeg(RatHalf(drawWidth)), y |-> RatNeg(RatHalf(drawHeight)),
                w |-> drawWidth, h |-> drawHeight]
    IN  [size |-> outputSize,
         background |-> "#000",
         transform |-> t,
         layers |-> IF ~shown THEN <<>>
                    ELSE << [kind |-> "image", data |-> src, rect |-> box],
                            [kind |-> "canvas", data |-> drawingCanvas, rect |-> box] >>]

handleSaveDrawsMask(shown, src, natW, natH, drawingCanvas, maskCanvas, z, p) ==
    LET scaleFactor == Rat(outputSize, VIEWPORT_SIZE)
        t == Scale(Translate(Translate(IdentityTransform,
                                       RatHalf(Rat(outputSize, 1)),
                                       RatHalf(Rat(outputSize, 1))),
                             RatMul(Rat(p[1], 1), scaleFactor),
                             RatMul(Rat(p[2], 1), scaleFactor)),
                   ZoomFactor(z))
        aspect == Rat(natW, natH)
        drawWidth == RatMul(Rat(outputSize, 1), aspect)
        drawHeight == Rat(outputSize, 1)
        box == [x |-> RatNeg(RatHalf(drawWidth)), y |-> RatNeg(RatHalf(drawHeight)),
                w |-> drawWidth, h |-> drawHeight]
    IN  [size |-> outputSize,
         background |-> "#000",
         transform |-> t,
         layers |-> IF ~shown THEN <<>>
                    ELSE << [kind |-> "image", data |-> src, rect |-> box],
                            [kind |-> "canvas", data |-> drawingCanvas, rect |-> box],
                            [kind |-> "canvas", data |-> maskCanvas, rect |-> box] >>]

\* handleSave: what is drawn on the 1024 x 1024 output canvas, in order: the
\* black background, then under the transform (centre, pan scaled to output
\* space, zoom) the image and the drawing canvas in the same rectangle.
\* Before the image has loaded its natural size is 0 x 0, the aspect is NaN
\* and drawImage draws nothing. The blob handed to onSave is the encoding of
\* this canvas.
handleSave(shown, src, natW, natH, drawingCanvas, maskCanvas, z, p) ==
    LET scaleFactor == Rat(outputSize, VIEWPORT_SIZE)
        t == Scale(Translate(Translate(IdentityTransform,
                                       RatHalf(Rat(outputSize, 1)),
                                       RatHalf(Rat(outputSize, 1))),
                             RatMul(Rat(p[1], 1), scaleFactor),
                             RatMul(Rat(p[2], 1), scaleFactor)),
                   ZoomFactor(z))
        aspect == Rat(natW, natH)
        drawWidth == RatMul(Rat(outputSize, 1), aspect)
        drawHeight == Rat(outputSize, 1)
        box == [x |-> RatNeg(RatHalf(drawWidth)), y |-> RatNeg(RatHalf(drawHeight)),
                w |-> drawWidth, h |-> drawHeight]
    IN  [size |-> outputSize,
         background |-> "#000",
         transform |-> t,
         layers |-> IF ~shown THEN <<>>
                    ELSE << [kind |-> "image", data |-> src, rect |-> box],
                            [kind |-> "canvas", data |-> drawingCanvas, rect |-> box] >>]

\* no export yet
NoBlob == [size |-> 0]

\* the "Save & Apply" button: handleSave, then onSave(blob), upon which the
\* parent takes the modal away
SaveClick ==
    /\ PointerFree
    /\ fx.pc = "save"
    /\ fx' = [pc |-> "saved",
              blob |-> handleSave(imgShown, imgSrc, Width, Height, drawing, mask,
                                  zoom, pan)]
    /\ UNCHANGED <<sessionVars, obs>>

\* <input type="range" min="0.5" max="15" step="0.1">, in tenths
ZoomMin == 5
ZoomMax == 150

rangeInputAsAsked(asked) == asked

\* the value of the range input: what is asked of it, brought into min .. max
rangeInput(asked) ==
    IF asked < ZoomMin THEN ZoomMin ELSE IF asked > ZoomMax THEN ZoomMax ELSE asked

\* what the slider is asked for: its ends, the initial value and beyond the
\* ends
SliderInputs == {0, ZoomMin, InitialZoom, ZoomMax, ZoomMax + 1}

\* onChange={(e) => setZoom(parseFloat(e.target.value))}
ZoomSlider(asked) == SetZoom(rangeInput(asked))

\* ---------------------------------------------- a session that is exported
\* move, brush and mask strokes, drags and the zoom slider, then Save
SaveTools == {"move", "brush", "mask"}

SaveEvents ==
    {PointerEvent(cx, 0, 0, 0, Width, Height) : cx \in {0, 1}}

SaveInit ==
    /\ InitFresh
    /\ obs = FreshObs(MaxSavePushes, FALSE)
    /\ fx = [pc |-> "save", blob |-> NoBlob]

SaveNext ==
    \/ /\ fx.pc = "save"
       /\ \/ handleImageLoad
          \/ \E tool \in SaveTools : SelectTool(tool)
          \/ \E asked \in SliderInputs : ZoomSlider(asked)
          \/ \E e \in SaveEvents : handleMouseDown(e)
          \/ \E e \in SaveEvents : handleMouseMove(e)
          \/ handleMouseUp
    \/ SaveClick

SpecSave == SaveInit /\ [][SaveNext]_vars

\* mask layers to compare with: nothing masked, everything masked
ExportMasks == {BlankData, [p \in Pixels |-> MarkerColor]}

\* C23: the export is made of the background, the source image and the draw
\* layer only: the image handed to onSave is the one the same session state
\* gives with another mask layer, and the Save step leaves the draw layer,
\* the mask layer, history, historyStep, zoom, pan and the tool mode unchanged.
C23_ExportIgnoresMask ==
    [][ (fx.pc = "save" /\ fx'.pc = "saved") =>
          /\ UNCHANGED <<drawing, mask, history, historyStep, zoom, pan, mode>>
          /\ \A m \in ExportMasks :
                 fx'.blob = handleSave(imgShown, imgSrc, Width, Height, drawing, m,
                                       zoom, pan)
      ]_vars

\* a session with paint on the draw layer and on the mask layer was exported
C23_Witness ==
    /\ fx.pc = "saved"
    /\ Len(fx.blob.layers) = 2
    /\ drawing # BlankData
    /\ mask # BlankData
    /\ fx.blob.layers[2].data = drawing

\* -------------------------------------------- the viewport and the export
\* The transform container: a VIEWPORT_SIZE square with
\* "transform: translate(pan.x px, pan.y px) scale(zoom)" and
\* "transformOrigin: center center".
viewportTransform(z, p) ==
    LET origin == RatHalf(Rat(VIEWPORT_SIZE, 1))
    IN  Translate(Scale(Translate(Translate(IdentityTransform, origin, origin),
                                  Rat(p[1], 1), Rat(p[2], 1)),
                        ZoomFactor(z)),
                  RatNeg(origin), RatNeg(origin))

\* The box of the <img> in the container: height VIEWPORT_SIZE, width auto,
\* centred by the flex container. Both canvases are "absolute inset-0 w-full
\* h-full" in the wrapper of the <img>: the same box.
viewportBox(natW, natH) ==
    LET height == Rat(VIEWPORT_SIZE, 1)
        width == RatMul(height, Rat(natW, natH))
    IN  [x |-> RatHalf(RatAdd(Rat(VIEWPORT_SIZE, 1), RatNeg(width))),
         y |-> RatHalf(RatAdd(Rat(VIEWPORT_SIZE, 1), RatNeg(height))),
         w |-> width, h |-> height]

\* where the viewport shows the point i/natW, j/natH of the image or of the
\* drawing canvas
viewportShows(natW, natH, z, p, i, j) ==
    LET at == PointOfRect(viewportBox(natW, natH), i, natW, j, natH)
    IN  Apply(viewportTransform(z, p), at[1], at[2])

\* where the export puts that point of its layer
exportShows(blob, layer, natW, natH, i, j) ==
    LET at == PointOfRect(blob.layers[layer].rect, i, natW, j, natH)
    IN  Apply(blob.transform, at[1], at[2])

BlankCanvas(w, h) == [p \in 0 .. (w * h - 1) |-> Transparent]

NaturalSizes == (1 .. MaxNatural) \X (1 .. MaxNatural)
ExportZooms == ZoomValues \cup {InitialZoom + 1}
ExportPans == (-MaxExportPan .. MaxExportPan) \cup {-VIEWPORT_SIZE, VIEWPORT_SIZE}

ExportInit ==
    /\ InitFresh
    /\ obs = FreshObs(0, FALSE)
    /\ fx \in [pc : {"view"}, natural : NaturalSizes, zoom : ExportZooms,
               pan : ExportPans \X ExportPans, blob : {NoBlob}]

ExportOnce ==
    /\ fx.pc = "view"
    /\ fx' = [fx EXCEPT !.pc = "exported",
                        !.blob = handleSave(TRUE, "original", fx.natural[1],
                                            fx.natural[2],
                                            BlankCanvas(fx.natural[1], fx.natural[2]),
                                            BlankCanvas(fx.natural[1], fx.natural[2]),
                                            fx.zoom, fx.pan)]
    /\ UNCHANGED <<sessionVars, obs>>

ExportNext == ExportOnce

SpecExport == ExportInit /\ [][ExportNext]_vars

\* C24: for every zoom, pan and image size, the export puts each point of
\* the source image and of the draw layer at outputSize / VIEWPORT_SIZE times
\* the place where the viewport shows it, in x and in y: the zoom is the
\* viewport's, the image centre is moved by the pan times
\* outputSize / VIEWPORT_SIZE, and the rectangle drawn is outputSize high and
\* outputSize times the aspect ratio wide.
C24_ExportMatchesViewport ==
    fx.pc = "exported" =>
        LET natW == fx.natural[1]
            natH == fx.natural[2]
            ratio == Rat(outputSize, VIEWPORT_SIZE)
            half == RatHalf(Rat(outputSize, 1))
        IN  /\ fx.blob.transform.s = ZoomFactor(fx.zoom)
            /\ Apply(fx.blob.transform, Rat(0, 1), Rat(0, 1)) =
                   << RatAdd(half, RatMul(ratio, Rat(fx.pan[1], 1))),
                      RatAdd(half, RatMul(ratio, Rat(fx.pan[2], 1))) >>
            /\ \A layer \in 1 .. 2 :
                   /\ fx.blob.layers[layer].rect.h = Rat(outputSize, 1)
                   /\ fx.blob.layers[layer].rect.w = Rat(outputSize * natW, natH)
                   /\ \A i \in 0 .. natW, j \in 0 .. natH :
                          LET seen == viewportShows(natW, natH, fx.zoom, fx.pan, i, j)
                          IN  exportShows(fx.blob, layer, natW, natH, i, j) =
                                  <<RatMul(ratio, seen[1]), RatMul(ratio, seen[2])>>

\* an image that is not square was exported zoomed in and panned in both axes
C24_Witness ==
    /\ fx.pc = "exported"
    /\ fx.natural[1] # fx.natural[2]
    /\ fx.zoom > InitialZoom
    /\ fx.pan[1] # 0 /\ fx.pan[2] # 0 /\ fx.pan[1] # fx.pan[2]
    /\ Len(fx.blob.layers) = 2

\* ------------------------------------------------- buffers and snapshots
\* The pixel buffers as objects: heap[id] is the contents of buffer id. The
\* backing stores of the two canvases are the first two; every getImageData
\* makes an ImageData object, and a history entry holds two of them.
drawingCanvasRef == 1
maskCanvasRef == 2

getImageDataSharesStore(heap, canvas) == [heap |-> heap, id |-> canvas]

\* ctx.getImageData(0, 0, w, h): a new ImageData with a copy of the pixels
getImageData(heap, canvas) ==
    [heap |-> Append(heap, heap[canvas]), id |-> Len(heap) + 1]

\* ctx.putImageData(imageData, 0, 0): the pixels are copied into the canvas
putImageData(heap, canvas, id) == [heap EXCEPT ![canvas] = heap[id]]

\* the canvases written by the 2D context (stroke, fill, clearRect)
Painted(heap, d, m) ==
    [heap EXCEPT ![drawingCanvasRef] = d, ![maskCanvasRef] = m]

\* saveHistory on buffers: two getImageData, then the push
HeapSave(heap, hist, step) ==
    LET drawingData == getImageData(heap, drawingCanvasRef)
        maskData == getImageData(drawingData.heap, maskCanvasRef)
        saved == saveHistory(hist, step, drawingData.id, maskData.id)
    IN  [heap |-> maskData.heap, history |-> saved.history,
         historyStep |-> saved.historyStep]

\* handleUndo on buffers
HeapUndo(heap, hist, step) ==
    IF step > 0
    THEN [heap |-> putImageData(putImageData(heap, drawingCanvasRef,
                                             hist[step].drawing),
                                maskCanvasRef, hist[step].mask),
          historyStep |-> step - 1]
    ELSE IF step = 0
    THEN [heap |-> Painted(heap, BlankData, BlankData), historyStep |-> -1]
    ELSE [heap |-> heap, historyStep |-> step]

\* handleBucketFill on buffers: imgData and maskData are read, imgData.data
\* is recoloured in place and put back (not when the seed has the fill
\* colour already)
HeapFill(heap, e, color) ==
    LET imgData == getImageData(heap, drawingCanvasRef)
        maskData == getImageData(imgData.heap, maskCanvasRef)
        filled == handleBucketFill(heap[drawingCanvasRef], heap[maskCanvasRef],
                                   e, color).drawing
        start == ReadPixel(heap[drawingCanvasRef],
                           getCanvasCoordinates(e).y * Width + getCanvasCoordinates(e).x)
    IN  IF start = FillColor(color) THEN maskData.heap
        ELSE putImageData([maskData.heap EXCEPT ![imgData.id] = filled],
                          drawingCanvasRef, imgData.id)

HeapEvents == {PointerEvent(cx, 0, 0, 0, Width, Height) : cx \in {0, 1}}
HeapTools == {"brush", "mask"}

HeapInit ==
    /\ InitFresh
    /\ obs = FreshObs(0, FALSE)
    /\ fx = [pc |-> "heap", heap |-> <<BlankData, BlankData>>, history |-> <<>>,
             historyStep |-> -1, isDrawing |-> FALSE, ops |-> <<>>]

\* the outcome of an operation that ends with saveHistory()
HeapSaved(op, heap) ==
    LET saved == HeapSave(heap, fx.history, fx.historyStep)
    IN  fx' = [fx EXCEPT !.heap = saved.heap, !.history = saved.history,
                         !.historyStep = saved.historyStep,
                         !.isDrawing = FALSE, !.ops = Append(@, op)]

HeapCanAct == fx.pc = "heap" /\ fx.ops # <<>> /\ Len(fx.ops) < MaxHeapOps

\* handleImageLoad
HeapLoad ==
    /\ fx.pc = "heap" /\ fx.ops = <<>>
    /\ HeapSaved("load", Painted(fx.heap, BlankData, BlankData))
    /\ UNCHANGED <<sessionVars, obs>>

\* handleMouseDown with the brush or the mask tool
HeapDown(e, tool) ==
    /\ HeapCanAct /\ ~fx.isDrawing
    /\ LET drawn == draw(fx.heap[drawingCanvasRef], fx.heap[maskCanvasRef], e,
                         tool, HexPink)
       IN  fx' = [fx EXCEPT !.heap = Painted(fx.heap, drawn.drawing, drawn.mask),
                            !.isDrawing = TRUE]
    /\ UNCHANGED <<sessionVars, obs>>

\* handleMouseUp after it
HeapUp ==
    /\ fx.pc = "heap" /\ fx.isDrawing
    /\ HeapSaved("stroke", fx.heap)
    /\ UNCHANGED <<sessionVars, obs>>

\* handleMouseDown with the bucket
HeapBucket(e) ==
    /\ HeapCanAct /\ ~fx.isDrawing
    /\ HeapSaved("fill", HeapFill(fx.heap, e, HexCyan))
    /\ UNCHANGED <<sessionVars, obs>>

\* the Reset button
HeapReset ==
    /\ HeapCanAct /\ ~fx.isDrawing
    /\ HeapSaved("reset", Painted(fx.heap, BlankData, BlankData))
    /\ UNCHANGED <<sessionVars, obs>>

\* handleFaceDetect, "3. Draw Results", with one face found
HeapFaces ==
    /\ HeapCanAct /\ ~fx.isDrawing
    /\ HeapSaved("faces", Painted(fx.heap, fx.heap[drawingCanvasRef],
                                  PaintFaces(fx.heap[maskCanvasRef], << {0} >>)))
    /\ UNCHANGED <<sessionVars, obs>>

\* the Undo button
HeapUndoClick ==
    /\ HeapCanAct /\ ~fx.isDrawing
    /\ fx.historyStep >= 0
    /\ LET undone == HeapUndo(fx.heap, fx.history, fx.historyStep)
       IN  fx' = [fx EXCEPT !.heap = undone.heap,
                            !.historyStep = undone.historyStep,
                            !.ops = Append(@, "undo")]
    /\ UNCHANGED <<sessionVars, obs>>

HeapNext ==
    \/ HeapLoad
    \/ \E e \in HeapEvents, tool \in HeapTools : HeapDown(e, tool)
    \/ HeapUp
    \/ \E e \in HeapEvents : HeapBucket(e)
    \/ HeapReset
    \/ HeapFaces
    \/ HeapUndoClick

SpecHeap == HeapInit /\ [][HeapNext]_vars

\* the buffers a history holds
HeldBy(hist) ==
    {hist[k].drawing : k \in 1 .. Len(hist)} \cup {hist[k].mask : k \in 1 .. Len(hist)}

\* C25: a snapshot is a copy of the two layers as they are when it is taken,
\* and no later stroke, fill, Reset, face marking or undo changes the pixels
\* of a snapshot the history holds, also not an edit made after the snapshot
\* was restored.
C25_SnapshotsAreCopies ==
    [][ /\ \A id \in HeldBy(fx.history) : fx'.heap[id] = fx.heap[id]
        /\ Len(fx'.ops) > Len(fx.ops) /\ fx'.ops[Len(fx'.ops)] # "undo" =>
              LET top == fx'.history[fx'.historyStep + 1]
              IN  /\ fx'.heap[top.drawing] = fx'.heap[drawingCanvasRef]
                  /\ fx'.heap[top.mask] = fx'.heap[maskCanvasRef]
                  /\ {top.drawing, top.mask} \cap HeldBy(fx.history) = {}
      ]_vars

\* a stroke was undone and the layers were then painted again: the snapshot
\* that was restored still holds the blank layers, the live layers do not
C25_Witness ==
    /\ Len(fx.ops) = 4
    /\ fx.ops[3] = "undo" /\ fx.ops[4] \in {"stroke", "faces"}
    /\ fx.heap[fx.history[1].drawing] = BlankData
    /\ fx.heap[fx.history[1].mask] = BlankData
    /\ fx.heap[maskCanvasRef] # BlankData

\* ------------------------------------------------- fills from outside
\* C26: a bucket fill whose seed is outside the buffer (x < 0, x >= width,
\* y < 0 or y >= height) leaves every pixel of the draw layer and of the mask
\* layer as it was and ends with well-formed layers, also when the seed's
\* linear index y * width + x is the index of a pixel.
C26_OutsideSeedChangesNothing ==
    (fx.pc = "filled" /\ ~InBounds(getCanvasCoordinates(fx.e))) =>
        /\ fx.out.drawing = fx.drawing
        /\ fx.out.mask = fx.mask
        /\ DOMAIN fx.out.drawing = Pixels
        /\ \A p \in Pixels : fx.out.drawing[p] # Undefined

\* a fill seeded one pixel left of the buffer, whose linear index is that of
\* an unmasked pixel of another colour than the fill
C26_Witness ==
    /\ fx.pc = "filled"
    /\ SeedOf(fx.e).x = -1
    /\ SeedOf(fx.e).y \in 1 .. Height - 1
    /\ SeedPos(fx.e) \in Pixels
    /\ fx.drawing[SeedPos(fx.e)] # FillColor(fx.brushColor)
    /\ fx.mask[SeedPos(fx.e)] = Transparent

\* ------------------------------------------------ the sizes of the layers
\* The <img> element and the two canvases by their sizes <<width, height>>.
\* img.current is the image the element holds (naturalWidth, naturalHeight;
\* <<0, 0>> while it holds none), img.pending the image a new src is loading.
\* A canvas element is 300 x 150 until it is resized.
NoImage == <<0, 0>>
DefaultCanvas == <<300, 150>>

srcShownAtOnce(img, size) == [current |-> size, pending |-> size]

\* a new src on the <img>: an element that holds an image keeps it until the
\* new one has loaded
srcChanged(img, size) == [current |-> img.current, pending |-> size]

DimsInit ==
    /\ InitFresh
    /\ obs = FreshObs(0, FALSE)
    /\ fx \in [pc : {"dims"},
               img : {srcChanged([current |-> NoImage, pending |-> NoImage], size) :
                         size \in NaturalSizes},
               drawing : {DefaultCanvas}, mask : {DefaultCanvas},
               generations : {0}]

\* the new image has loaded: it becomes the element's image and onLoad runs
\* handleImageLoad, which sizes both canvases to naturalWidth x naturalHeight
DimsImageLoad ==
    /\ fx.pc = "dims"
    /\ fx.img.pending # NoImage
    /\ fx' = [fx EXCEPT !.img = [current |-> fx.img.pending, pending |-> NoImage],
                        !.drawing = fx.img.pending,
                        !.mask = fx.img.pending]
    /\ UNCHANGED <<sessionVars, obs>>

\* onAiEdit resolves with an image of some size: setImgSrc(resultBase64);
\* clearCanvas leaves the canvases' sizes alone
DimsEditResolves(size) ==
    /\ fx.pc = "dims"
    /\ fx.generations < MaxGenerations
    /\ fx' = [fx EXCEPT !.img = srcChanged(fx.img, size),
                        !.generations = @ + 1]
    /\ UNCHANGED <<sessionVars, obs>>

DimsNext ==
    \/ DimsImageLoad
    \/ \E size \in NaturalSizes : DimsEditResolves(size)

SpecDims == DimsInit /\ [][DimsNext]_vars

OutsideViewport(z, p) == 20 * Abs(p[1]) >= 10 * Height + z * Width

\* C28: the zoom factor is within [0.5, 15] in every state, and the pan is
\* not clamped: every pan change of a drag is to the pointer position minus
\* dragStart, whatever that is, also when it moves the image out of the
\* viewport.
C28_ZoomInRangePanFree ==
    [][ /\ zoom \in ZoomMin .. ZoomMax
        /\ zoom' \in ZoomMin .. ZoomMax
        /\ (mode = "move" /\ isDragging /\ pan' # pan) =>
              \E e \in SaveEvents :
                  /\ handleMouseMove(e)
                  /\ pan' = <<getPointerPos(e).x - dragStart[1],
                              getPointerPos(e).y - dragStart[2]>>
      ]_vars

\* the slider is at its minimum and a drag has moved the image out of the
\* viewport
C28_Witness ==
    /\ zoom = ZoomMin
    /\ mode = "move" /\ isDragging
    /\ pan # <<0, 0>>
    /\ OutsideViewport(zoom, pan)

\* ------------------------------------------------- the length of a fill
\* clicks on every pixel and beside the buffer, and clicks while the canvas
\* is laid out with no width (its image has not loaded): on its edge and at
\* both sides of it
PopEvents ==
    FillEvents \cup
    {PointerEvent(cx, cy, 0, 0, 0, Height) : cx \in {-1, 0, 1}, cy \in 0 .. Height - 1}

NoRun == [pixels |-> BlankData, pops |-> 0, done |-> TRUE]

PopInit ==
    /\ InitFresh
    /\ obs = FreshObs(0, FALSE)
    /\ fx \in [pc : {"input"}, drawing : FillDrawings, mask : FillMasks,
               e : PopEvents, brushColor : Palette, run : {NoRun}]

PopFill ==
    /\ fx.pc = "input"
    /\ fx' = [fx EXCEPT !.pc = "run",
                        !.run = handleBucketFillRun(fx.drawing, fx.mask, fx.e,
                                                    fx.brushColor)]
    /\ UNCHANGED <<sessionVars, obs>>

PopNext == PopFill

SpecPops == PopInit /\ [][PopNext]_vars

\* the pops the claim allows: one for the seed and four for every pixel
PopBound == 1 + 4 * Width * Height

\* C29: every bucket fill ends, for every buffer, mask, seed and colour,
\* after at most one pop for the seed and four for every pixel of the buffer.
C29_FillTerminates ==
    fx.pc = "run" => (fx.run.done /\ fx.run.pops <= PopBound)

\* a fill that took the most pops a buffer allows: every pixel recoloured
C29_Witness ==
    /\ fx.pc = "run"
    /\ fx.run.done
    /\ fx.run.pops = PopBound
    /\ \A p \in Pixels : fx.run.pixels[p] = FillColor(fx.brushColor)

\* the same for the clicks on a canvas laid out with a width: seeds on the
\* buffer's grid and beside it
LaidOutFillsTerminate ==
    (fx.pc = "run" /\ fx.e.rect.width # 0) =>
        (fx.run.done /\ fx.run.pops <= PopBound)

\* ------------------------------------------- the layers and the cursor
\* While every image of the session has one size, the live layers are those
\* of the snapshot under the history cursor whenever no stroke is in
\* progress: equal pixel for pixel to history[historyStep] when
\* historyStep >= 0, and fully transparent when historyStep = -1.
SameSizeLayersAgreeWithCursor ==
    ~isDrawing =>
        IF historyStep >= 0
        THEN /\ historyStep < Len(history)
             /\ history[historyStep + 1] = Snapshot(drawing, mask)
        ELSE drawing = BlankData /\ mask = BlankData

\* ----------------------------------- undo across images of different sizes
\* A session in which the generated image need not have the size of the
\* original: an image and its canvases are a row of n pixels, 0 .. n - 1.
StripSizes == 1 .. MaxStrip
BlankStrip(n) == [p \in 0 .. (n - 1) |-> Transparent]

\* ctx.putImageData(data, 0, 0) on a canvas of any size: the pixels the two
\* share are copied, the canvas keeps its size and its other pixels
putImageDataSized(canvas, data) ==
    [p \in DOMAIN canvas |-> IF p \in DOMAIN data THEN data[p] ELSE canvas[p]]

\* handleUndo on canvases of any size
handleUndoSized(hist, step, d, m) ==
    IF step > 0
    THEN [drawing |-> putImageDataSized(d, hist[step].drawing),
          mask |-> putImageDataSized(m, hist[step].mask),
          historyStep |-> step - 1]
    ELSE IF step = 0
    THEN [drawing |-> [p \in DOMAIN d |-> Transparent],
          mask |-> [p \in DOMAIN m |-> Transparent],
          historyStep |-> -1]
    ELSE [drawing |-> d, mask |-> m, historyStep |-> step]

NoCall == [pending |-> FALSE]

ResizeInit ==
    /\ InitFresh
    /\ obs = FreshObs(0, FALSE)
    /\ fx \in [pc : {"resize"},
               img : {srcChanged([current |-> 0, pending |-> 0], n) : n \in StripSizes},
               drawing : {BlankStrip(1)}, mask : {BlankStrip(1)},
               history : {<<>>}, historyStep : {-1},
               isDrawing : {FALSE}, call : {NoCall}, pushes : {0}]

\* what a handler that ends with saveHistory() leaves, given the history and
\* historyStep of its closure
ResizeSaved(state, hist, step) ==
    LET saved == saveHistory(hist, step, state.drawing, state.mask)
    IN  [state EXCEPT !.history = saved.history,
                      !.historyStep = saved.historyStep,
                      !.pushes = @ + 1]

ResizeCanPush == fx.pc = "resize" /\ fx.pushes < MaxResizePushes

\* handleImageLoad
ResizeImageLoad ==
    /\ ResizeCanPush
    /\ fx.img.pending # 0
    /\ fx' = ResizeSaved([fx EXCEPT !.img = [current |-> fx.img.pending, pending |-> 0],
                                    !.drawing = BlankStrip(fx.img.pending),
                                    !.mask = BlankStrip(fx.img.pending)],
                         fx.history, fx.historyStep)
    /\ UNCHANGED <<sessionVars, obs>>

\* handleMouseDown with the brush on pixel p
ResizeDown(p) ==
    /\ ResizeCanPush
    /\ fx.img.current # 0
    /\ ~fx.isDrawing
    /\ p \in DOMAIN fx.drawing
    /\ fx' = [fx EXCEPT !.isDrawing = TRUE,
                        !.drawing[p] = StrokePixel(@, FillColor(HexPink),
                                                   "source-over")]
    /\ UNCHANGED <<sessionVars, obs>>

\* handleMouseUp
ResizeUp ==
    /\ fx.pc = "resize"
    /\ fx.isDrawing
    /\ fx' = ResizeSaved([fx EXCEPT !.isDrawing = FALSE], fx.history, fx.historyStep)
    /\ UNCHANGED <<sessionVars, obs>>

\* the Undo button
ResizeUndo ==
    /\ fx.pc = "resize"
    /\ ~fx.isDrawing
    /\ fx.historyStep >= 0
    /\ LET undone == handleUndoSized(fx.history, fx.historyStep, fx.drawing, fx.mask)
       IN  fx' = [fx EXCEPT !.drawing = undone.drawing, !.mask = undone.mask,
                            !.historyStep = undone.historyStep]
    /\ UNCHANGED <<sessionVars, obs>>

\* the Generate button: handleAiEdit up to its await, with the history and
\* historyStep of this render
ResizeEditClick ==
    /\ ResizeCanPush
    /\ fx.img.current # 0
    /\ ~fx.isDrawing
    /\ ~fx.call.pending
    /\ fx' = [fx EXCEPT !.call = [pending |-> TRUE, history |-> fx.history,
                                  historyStep |-> fx.historyStep]]
    /\ UNCHANGED <<sessionVars, obs>>

\* onAiEdit resolves with an image of n pixels: the new src, clearCanvas on
\* both canvases, saveHistory() of the handler's closure
ResizeEditResolves(n) ==
    /\ fx.pc = "resize"
    /\ fx.call.pending
    /\ fx' = ResizeSaved([fx EXCEPT !.img = srcChanged(fx.img, n),
                                    !.drawing = [p \in DOMAIN fx.drawing |-> Transparent],
                                    !.mask = [p \in DOMAIN fx.mask |-> Transparent],
                                    !.call = NoCall],
                         fx.call.history, fx.call.historyStep)
    /\ UNCHANGED <<sessionVars, obs>>

ResizeNext ==
    \/ ResizeImageLoad
    \/ \E p \in 0 .. (MaxStrip - 1) : ResizeDown(p)
    \/ ResizeUp
    \/ ResizeUndo
    \/ ResizeEditClick
    \/ \E n \in StripSizes : ResizeEditResolves(n)

SpecResize == ResizeInit /\ [][ResizeNext]_vars

\* the pixel p of a layer, transparent beyond its size
PixelOrNone(data, p) == IF p \in DOMAIN data THEN data[p] ELSE Transparent

\* two layers show the same: equal pixel for pixel, a pixel that only one of
\* them has being transparent
SamePicture(a, b) ==
    \A p \in DOMAIN a \cup DOMAIN b : PixelOrNone(a, p) = PixelOrNone(b, p)

\* C30 in a session whose images differ in size: whenever no stroke is in
\* progress, the live layers show what the snapshot under the cursor holds,
\* and nothing when historyStep = -1.
C30_LayersAgreeAcrossSizes ==
    (fx.pc = "resize" /\ ~fx.isDrawing) =>
        IF fx.historyStep >= 0
        THEN /\ fx.historyStep < Len(fx.history)
             /\ SamePicture(fx.history[fx.historyStep + 1].drawing, fx.drawing)
             /\ SamePicture(fx.history[fx.historyStep + 1].mask, fx.mask)
        ELSE /\ SamePicture(fx.drawing, BlankStrip(1))
             /\ SamePicture(fx.mask, BlankStrip(1))

\* an undo has put the cursor on a snapshot, with a stroke in it, of an
\* image that was larger than the one being edited
C30_Witness ==
    /\ fx.pc = "resize"
    /\ ~fx.isDrawing
    /\ fx.historyStep >= 0
    /\ fx.historyStep < Len(fx.history) - 1
    /\ DOMAIN fx.history[fx.historyStep + 1].drawing # DOMAIN fx.drawing
    /\ fx.history[fx.historyStep + 1].drawing # BlankStrip(MaxStrip)

\* ------------------------------------------------- undo, edit by edit
\* The session with the brush and Reset up to the capacity of the history,
\* and with the Undo button too once a snapshot has been evicted: every
\* pushed snapshot is logged with the canvases as they were before its edit.
RevertInit == InitFresh /\ obs = FreshObs(MaxCapPushes, TRUE) /\ fx = NoFx

RevertNext ==
    /\ \/ handleImageLoad
       \/ \E tool \in CapTools : SelectTool(tool)
       \/ \E e \in SessionEvents : handleMouseDown(e)
       \/ handleMouseUp
       \/ ResetClick
       \/ Len(obs.log) > HistoryCap /\ UndoClick
    /\ Variations(obs'.log) <= MaxVariations

SpecRevert == RevertInit /\ [][RevertNext]_vars

C32_PushAtCompletionTime ==
    [][ \A i \in 1 .. Len(calls), faces \in FaceResults \ {<<>>} :
            ( /\ calls[i].historyStep >= 0
              /\ \/ FaceNativeSettles(i, TRUE, faces)
                 \/ FaceAiSettles(i, TRUE, faces)
                 \/ AiEditResolves(i)
            ) =>
              LET saved == saveHistory(history, historyStep, drawing', mask')
              IN  history' = saved.history /\ historyStep' = saved.historyStep
      ]_vars

\* a detection has ended after a brush stroke made while it was in flight:
\* its snapshot has taken the place of the stroke's
C32_Witness ==
    /\ obs.op = "faceDone"
    /\ Len(history) = 2
    /\ historyStep = 1
    /\ history[1] = BlankSnapshot
    /\ history[2].drawing # BlankData
    /\ history[2].mask # BlankData

\* ------------------------------------------------------- the busy flag
\* C33: isProcessing is TRUE in every state in which a face detection or a
\* background generation is in flight.
C33_BusyWhileInFlight == (calls # <<>>) => isProcessing

\* a call has ended while another one is still in flight
C33_Witness ==
    /\ obs.op \in {"faceDone", "faceNone", "editDone", "editFailed"}
    /\ calls # <<>>

\* the flag is FALSE again as soon as no call is in flight, whichever way the
\* last call ended
IdleWhenNoCall == (calls = <<>>) => ~isProcessing

\* ------------------------------------------------ what an undo leaves alone
\* The session with its settings: the tools, both sliders, the colours, drags
\* and strokes, and the Undo button.
FrameTools == {"move", "brush"}
FrameZooms == {ZoomMin, InitialZoom}
FrameSizes == {InitialBrushSize, BrushSizeMax}

FrameInit == InitFresh /\ obs = FreshObs(MaxFramePushes, FALSE) /\ fx = NoFx

FrameNext ==
    \/ handleImageLoad
    \/ \E tool \in FrameTools : SelectTool(tool)
    \/ \E c \in Palette : SetBrushColor(c)
    \/ \E n \in FrameSizes : SetBrushSize(n)
    \/ \E z \in FrameZooms : ZoomSlider(z)
    \/ \E e \in SaveEvents : handleMouseDown(e)
    \/ \E e \in SaveEvents : handleMouseMove(e)
    \/ handleMouseUp
    \/ UndoClick

SpecFrame == FrameInit /\ [][FrameNext]_vars

\* C34: an undo changes only the live draw and mask layers and historyStep:
\* the stored history (its length and every snapshot), zoom, pan, the tool
\* mode, the brush colour and the brush size are the same after it, as is
\* the rest of the session's state.
C34_UndoFrame ==
    [][obs'.op = "undo" /\ obs' # obs =>
           UNCHANGED <<history, zoom, pan, mode, brushColor, brushSize,
                       imageSource, imgSrc, loadPending, imgShown, isDragging,
                       dragStart, isProcessing, isDrawing, hasInteracted,
                       calls>>]_vars

\* an undo has been made in a session that was zoomed, panned, given another
\* colour and another brush size, and the snapshot it stepped back from is
\* still in the history
C34_Witness ==
    /\ obs.op = "undo"
    /\ zoom # InitialZoom
    /\ pan # <<0, 0>>
    /\ brushColor # HexPink
    /\ brushSize # InitialBrushSize
    /\ historyStep >= 0
    /\ historyStep + 1 < Len(history)
    /\ history[historyStep + 2] # BlankSnapshot

DragTools == {"move", "brush"}
DragEvents ==
    {PointerEvent(cx, cy, 0, 0, Width, Height) : cx \in {0, 1}, cy \in {0, 1}}

DragInit == InitFresh /\ obs = FreshObs(MaxDragPushes, TRUE) /\ fx = NoFx

DragNext ==
    /\ \/ handleImageLoad
       \/ \E tool \in DragTools : SelectTool(tool)
       \/ \E e \in DragEvents : handleMouseDown(e)
       \/ \E e \in DragEvents : handleMouseMove(e)
       \/ handleMouseUp
       \/ AiEditClick
       \/ \E i \in 1 .. Len(calls) : AiEditResolves(i)
    /\ pan'[2] \in -(MaxPan * Height) .. (MaxPan * Height)

SpecDrag == DragInit /\ [][DragNext]_vars

\* C36: during a drag in move mode every pointer-move leaves the pan at the
\* pan of the pointer-down plus the pointer's displacement since then, in
\* each axis; a pointer-move in move mode with no drag in progress (none
\* begun, or ended by pointer-up or pointer-leave) leaves the pan as it is.
C36_PanFollowsPointer ==
    [][ \A e \in DragEvents :
            (handleMouseMove(e) /\ mode = "move") =>
                IF obs.drag # NoDrag
                THEN pan' = <<obs.drag.pan[1] + (getPointerPos(e).x - obs.drag.pos[1]),
                              obs.drag.pan[2] + (getPointerPos(e).y - obs.drag.pos[2])>>
                ELSE pan' = pan
      ]_vars

\* a drag that began with the image already panned has moved it in both axes
C36_Witness ==
    /\ obs.op = "move"
    /\ isDragging
    /\ obs.drag # NoDrag
    /\ obs.drag.pan[1] # 0
    /\ obs.drag.pan[2] # 0
    /\ pan[1] # obs.drag.pan[1]
    /\ pan[2] # obs.drag.pan[2]

\* ------------------------------------------- the order of the detectors
\* the face detection requests that have gone on to the AI collaborator
AskedAi(cs) == {j \in 1 .. Len(cs) : cs[j].kind = "face" /\ cs[j].stage = "ai"}

\* C37: within one face detection request the native detector is tried
\* first; the request goes on to the AI collaborator only when there is no
\* native detector, or it threw, or it returned no face; when the native
\* detector returns at least one face the request ends there and the AI
\* collaborator is not called for it.
C37_NativeFirstAiFallback ==
    [][ /\ FaceDetectClick(TRUE) => calls'[Len(calls')].stage = "native"
        /\ Cardinality(AskedAi(calls')) > Cardinality(AskedAi(calls)) =>
               \/ FaceDetectClick(FALSE)
               \/ \E i \in 1 .. Len(calls), faces \in FaceResults :
                      /\ calls[i].stage = "native"
                      /\ \/ FaceNativeSettles(i, FALSE, faces)
                         \/ FaceNativeSettles(i, TRUE, <<>>)
        /\ \A i \in 1 .. Len(calls), faces \in FaceResults \ {<<>>} :
               (calls[i].stage = "native" /\ FaceNativeSettles(i, TRUE, faces)) =>
                   /\ calls' = RemoveAt(calls, i)
                   /\ Cardinality(AskedAi(calls')) = Cardinality(AskedAi(calls))
      ]_vars

\* a request whose native detector found nothing has gone on to the AI
\* collaborator
C37_Witness ==
    /\ obs.op = "faceFallback"
    /\ AskedAi(calls) # {}

\* ------------------------------------------------------- the application
\* App's state, kept in fx: mode, detectionMode, audioFile, analysisResult,
\* speakers, manualSpeakerCount, manualActiveKeys, activeSpeakerIds, error;
\* analyzing is the diarization call in flight, currentTime the AudioPlayer's
\* state, op the last operation. Speaker ids are numbers: 1 .. MaxSpeakers
\* for the labels of an analysis, ManualId(i) for `manual_${i}`; a trigger key
\* is the number on it, 0 for none; a manual speaker's name is the number in
\* `Speaker ${i + 1}`, a colour the index it is generated from.
NoResult == [uniqueSpeakers |-> <<>>, segments |-> <<>>, isNull |-> TRUE]
NoError == ""

SpeakerIds == 1 .. MaxSpeakers
Times == 0 .. MaxTime
Segments == [speaker : SpeakerIds, start : Times, end : Times]
SegmentLists == UNION {[1 .. n -> Segments] : n \in 0 .. MaxSegments}
SpeakerLists == UNION {[1 .. n -> SpeakerIds] : n \in 0 .. MaxSpeakers}

\* what analyzeAudioDiarization can resolve with
AnalysisResults ==
    [uniqueSpeakers : SpeakerLists, segments : SegmentLists, isNull : {FALSE}]

ManualId(i) == 10 + i

\* startProcess, manual: Array.from({ length: manualSpeakerCount }).map(...)
ManualSpeakers(count) ==
    [k \in 1 .. count |->
        [id |-> ManualId(k - 1), name |-> k, color |-> k - 1,
         triggerKey |-> k]]

\* startProcess, auto: result.uniqueSpeakers.map((id, index) => ...)
InitialSpeakers(result) ==
    [k \in 1 .. Len(result.uniqueSpeakers) |->
        [id |-> result.uniqueSpeakers[k], name |-> result.uniqueSpeakers[k],
         color |-> k - 1, triggerKey |-> 0]]

\* array.filter(keep), for keep a set of indices
RECURSIVE FilterSeq(_, _, _)
FilterSeq(seq, keep, k) ==
    IF k > Len(seq) THEN <<>>
    ELSE (IF k \in keep THEN <<seq[k]>> ELSE <<>>) \o FilterSeq(seq, keep, k + 1)

\* Array.from(new Set(list)): the first occurrence of each value, in order
RECURSIVE Dedupe(_, _)
Dedupe(list, seen) ==
    IF list = <<>> THEN <<>>
    ELSE IF Head(list) \in seen THEN Dedupe(Tail(list), seen)
    ELSE <<Head(list)>> \o Dedupe(Tail(list), seen \cup {Head(list)})

\* [...list].sort()
RECURSIVE Sorted(_)
Sorted(list) ==
    IF list = <<>> THEN <<>>
    ELSE LET least == CHOOSE k \in 1 .. Len(list) :
                          \A j \in 1 .. Len(list) : list[k] <= list[j]
         IN  <<list[least]>>
             \o Sorted(SubSeq(list, 1, least - 1) \o SubSeq(list, least + 1, Len(list)))

handleTimeUpdateKeepsPrev(state, currentTime) ==
    IF state.detectionMode = "manual" THEN state
    ELSE IF state.analysisResult.isNull THEN state
    ELSE LET segs == state.analysisResult.segments
             activeSegments ==
                 FilterSeq(segs, {k \in 1 .. Len(segs) :
                                     currentTime >= segs[k].start
                                     /\ currentTime <= segs[k].end}, 1)
             currentActiveIds ==
                 Dedupe([k \in 1 .. Len(activeSegments) |-> activeSegments[k].speaker],
                        {})
             prev == state.activeSpeakerIds
         IN  [state EXCEPT !.activeSpeakerIds =
                 IF Len(prev) # Len(currentActiveIds) THEN currentActiveIds
                 ELSE prev]

\* handleTimeUpdate: App's state after it
handleTimeUpdate(state, currentTime) ==
    IF state.detectionMode = "manual" THEN state
    ELSE IF state.analysisResult.isNull THEN state
    ELSE LET segs == state.analysisResult.segments
             activeSegments ==
                 FilterSeq(segs, {k \in 1 .. Len(segs) :
                                     currentTime >= segs[k].start
                                     /\ currentTime <= segs[k].end}, 1)
             currentActiveIds ==
                 Dedupe([k \in 1 .. Len(activeSegments) |-> activeSegments[k].speaker],
                        {})
             prev == state.activeSpeakerIds
         IN  [state EXCEPT !.activeSpeakerIds =
                 IF Len(prev) # Len(currentActiveIds) THEN currentActiveIds
                 ELSE IF \A index \in 1 .. Len(prev) :
                             Sorted(prev)[index] = Sorted(currentActiveIds)[index]
                 THEN prev
                 ELSE currentActiveIds]

\* the effect "Update active speakers based on manual keys"
ManualKeysEffect(state) ==
    IF state.detectionMode = "manual"
    THEN [state EXCEPT !.activeSpeakerIds =
             LET pressed == FilterSeq(state.speakers,
                                {k \in 1 .. Len(state.speakers) :
                                    /\ state.speakers[k].triggerKey # 0
                                    /\ state.speakers[k].triggerKey
                                           \in state.manualActiveKeys}, 1)
             IN  [k \in 1 .. Len(pressed) |-> pressed[k].id]]
    ELSE state

AppInit ==
    /\ InitFresh
    /\ obs = FreshObs(0, FALSE)
    /\ fx = [pc |-> "app", op |-> "init", mode |-> "upload",
             detectionMode |-> "auto", audioFile |-> FALSE,
             analysisResult |-> NoResult, speakers |-> <<>>,
             manualSpeakerCount |-> 2, manualActiveKeys |-> {},
             activeSpeakerIds |-> <<>>, error |-> NoError,
             analyzing |-> FALSE, currentTime |-> 0]

\* handleFileSelect
AppFileSelect(isAudio) ==
    /\ fx.pc = "app" /\ fx.mode = "upload"
    /\ fx' = IF isAudio
             THEN [fx EXCEPT !.op = "file", !.audioFile = TRUE,
                             !.error = NoError, !.mode = "setup"]
             ELSE [fx EXCEPT !.op = "file",
                             !.error = "Please upload a valid audio file."]
    /\ UNCHANGED <<sessionVars, obs>>

\* the two cards of the setup screen
AppSetDetectionMode(m) ==
    /\ fx.pc = "app" /\ fx.mode = "setup"
    /\ fx' = ManualKeysEffect([fx EXCEPT !.op = "card", !.detectionMode = m])
    /\ UNCHANGED <<sessionVars, obs>>

\* the manual speaker count of the setup screen
AppSetManualSpeakerCount(n) ==
    /\ fx.pc = "app" /\ fx.mode = "setup" /\ fx.detectionMode = "manual"
    /\ fx' = [fx EXCEPT !.op = "count", !.manualSpeakerCount = n]
    /\ UNCHANGED <<sessionVars, obs>>

\* startProcess up to its await
startProcess ==
    /\ fx.pc = "app" /\ fx.mode = "setup"
    /\ fx.audioFile
    /\ fx' = IF fx.detectionMode = "manual"
             THEN ManualKeysEffect(
                      [fx EXCEPT !.op = "start",
                                 !.speakers = ManualSpeakers(fx.manualSpeakerCount),
                                 !.mode = "visualizer"])
             ELSE [fx EXCEPT !.op = "start", !.mode = "analyzing",
                             !.analyzing = TRUE]
    /\ UNCHANGED <<sessionVars, obs>>

startProcessResolvesStaysAnalyzing(result) ==
    /\ fx.pc = "app" /\ fx.analyzing
    /\ fx' = ManualKeysEffect(
                 [fx EXCEPT !.op = "resolved", !.analyzing = FALSE,
                            !.analysisResult = result,
                            !.speakers = InitialSpeakers(result)])
    /\ UNCHANGED <<sessionVars, obs>>

\* analyzeAudioDiarization resolves: the try block after the await
startProcessResolves(result) ==
    /\ fx.pc = "app" /\ fx.analyzing
    /\ fx' = ManualKeysEffect(
                 [fx EXCEPT !.op = "resolved", !.analyzing = FALSE,
                            !.analysisResult = result,
                            !.speakers = InitialSpeakers(result),
                            !.mode = "visualizer"])
    /\ UNCHANGED <<sessionVars, obs>>

\* analyzeAudioDiarization rejects: the catch block
startProcessRejects ==
    /\ fx.pc = "app" /\ fx.analyzing
    /\ fx' = [fx EXCEPT !.op = "rejected", !.analyzing = FALSE,
                        !.error = "AI Analysis failed. Try Manual Mode or a shorter file.",
                        !.mode = "setup"]
    /\ UNCHANGED <<sessionVars, obs>>

\* AudioPlayer's updateProgress and handleSeek: setCurrentTime(time), then
\* onTimeUpdate(time)
AppTimeUpdate(time) ==
    /\ fx.pc = "app" /\ fx.mode = "visualizer"
    /\ fx' = handleTimeUpdate([fx EXCEPT !.op = "time", !.currentTime = time], time)
    /\ UNCHANGED <<sessionVars, obs>>

\* the key listeners of a manual session, with the effect that follows
AppKeyDown(key) ==
    /\ fx.pc = "app" /\ fx.mode = "visualizer" /\ fx.detectionMode = "manual"
    /\ fx' = ManualKeysEffect([fx EXCEPT !.op = "key",
                                         !.manualActiveKeys = @ \cup {key}])
    /\ UNCHANGED <<sessionVars, obs>>

AppKeyUp(key) ==
    /\ fx.pc = "app" /\ fx.mode = "visualizer" /\ fx.detectionMode = "manual"
    /\ fx' = ManualKeysEffect([fx EXCEPT !.op = "key",
                                         !.manualActiveKeys = @ \ {key}])
    /\ UNCHANGED <<sessionVars, obs>>

\* handleReset: Cancel on the setup screen, onReset of the AudioPlayer
handleReset ==
    /\ fx.pc = "app" /\ fx.mode \in {"setup", "visualizer"}
    /\ fx' = ManualKeysEffect(
                 [fx EXCEPT !.op = "reset", !.audioFile = FALSE,
                            !.analysisResult = NoResult, !.speakers = <<>>,
                            !.activeSpeakerIds = <<>>, !.manualActiveKeys = {},
                            !.mode = "upload", !.error = NoError,
                            !.currentTime = 0])
    /\ UNCHANGED <<sessionVars, obs>>

AppNext ==
    \/ \E isAudio \in BOOLEAN : AppFileSelect(isAudio)
    \/ \E m \in {"auto", "manual"} : AppSetDetectionMode(m)
    \/ \E n \in 1 .. MaxManual : AppSetManualSpeakerCount(n)
    \/ startProcess
    \/ \E result \in AnalysisResults : startProcessResolves(result)
    \/ startProcessRejects
    \/ \E time \in Times : AppTimeUpdate(time)
    \/ \E key \in 1 .. MaxManual : AppKeyDown(key)
    \/ \E key \in 1 .. MaxManual : AppKeyUp(key)
    \/ handleReset

SpecApp == AppInit /\ [][AppNext]_vars

\* the speakers with a segment of the analysis that holds the time
SpeakingAt(result, time) ==
    {result.segments[k].speaker :
        k \in {j \in 1 .. Len(result.segments) :
                  result.segments[j].start <= time /\ time <= result.segments[j].end}}

\* C38: after a time update at time t of an automatic session the active
\* speaker ids are, as a set, exactly the speakers with at least one segment
\* of the analysis with start <= t <= end (two of them where segments
\* overlap); a time update of a manual session leaves the active speaker ids
\* as they were.
C38_ActiveSpeakersFollowSegments ==
    [][(fx'.pc = "app" /\ fx'.op = "time")
       => IF fx.detectionMode = "auto"
          THEN /\ ~fx'.analysisResult.isNull
               /\ {fx'.activeSpeakerIds[k] : k \in 1 .. Len(fx'.activeSpeakerIds)}
                      = SpeakingAt(fx'.analysisResult, fx'.currentTime)
          ELSE fx'.activeSpeakerIds = fx.activeSpeakerIds]_vars

\* a time update inside two overlapping segments of different speakers, after
\* one that had the same number of other speakers active
C38_Witness ==
    /\ fx.pc = "app" /\ fx.op = "time" /\ fx.detectionMode = "auto"
    /\ Len(fx.activeSpeakerIds) = 2
    /\ fx.activeSpeakerIds[1] # fx.activeSpeakerIds[2]
    /\ fx.currentTime > 0

\* C39: the mode is "analyzing" exactly while the diarization call is in
\* flight, and nothing but the call's settling happens meanwhile; when it
\* resolves the mode becomes "visualizer" and the speakers are one per entry
\* of the result's uniqueSpeakers, in order and with that id; when it rejects
\* the mode becomes "setup", an error message is set, and the speakers and
\* the analysis result are the ones from before.
C39_AnalyzingEndsWithTheCall ==
    [][(fx'.pc = "app")
       => /\ (fx'.mode = "analyzing") <=> fx'.analyzing
          /\ (fx.analyzing /\ fx' # fx)
             => /\ fx'.op \in {"resolved", "rejected"}
                /\ fx'.op = "resolved"
                   => /\ fx'.mode = "visualizer"
                      /\ ~fx'.analysisResult.isNull
                      /\ Len(fx'.speakers) = Len(fx'.analysisResult.uniqueSpeakers)
                      /\ \A k \in 1 .. Len(fx'.speakers) :
                             fx'.speakers[k].id = fx'.analysisResult.uniqueSpeakers[k]
                /\ fx'.op = "rejected"
                   => /\ fx'.mode = "setup"
                      /\ fx'.error # NoError
                      /\ fx'.speakers = fx.speakers
                      /\ fx'.analysisResult = fx.analysisResult]_vars

\* an analysis that succeeded with two speakers after an earlier one failed
C39_Witness ==
    /\ fx.pc = "app" /\ fx.op = "resolved" /\ fx.mode = "visualizer"
    /\ Len(fx.speakers) = 2
    /\ fx.error = "AI Analysis failed. Try Manual Mode or a shorter file."

====
